---------------------------- MODULE Spec2Model ----------------------------
(***************************************************************************)
(* SuperDash: device aggregation and fan-out engine.                       *)
(*                                                                         *)
(* One module, several specifications over the same variables.  Each one   *)
(* exercises one component and leaves the others in their initial state:   *)
(*   Spec        the aggregator's device store (server.js) with the calls  *)
(*               it makes into the Ember+ provider and the TSL sender      *)
(*   SpecTsl     the TSL UMD sender (tsl-umd-sender.js)                     *)
(*   SpecHd      the HyperDeck client's connection lifecycle               *)
(*   SpecHdParse the HyperDeck client's line parser                        *)
(*   SpecVmix    the vMix client's poll loop                               *)
(*   SpecCaspar  the CasparCG client's shared listener and stale checker   *)
(*   SpecTc      framesToTimecode                                          *)
(*   SpecSched       the update loop's and the vMix poll's timer chains    *)
(*   SpecOsc         the CasparCG OSC listener and its client registry     *)
(*   SpecStateEvents the state events of the OSC and HyperDeck clients     *)
(*   SpecEmber       the Ember+ provider (emberplus-provider.js)           *)
(*   SpecOutputs     start() and stop() of the two protocol outputs        *)
(*   SpecConsumers   what Ember+ consumers and dashboard clients send      *)
(*   SpecPkt         buildV50Packet, byte by byte                          *)
(*   SpecTslRefresh  the TSL sender's refresh timer, fairly scheduled      *)
(*   SpecVmixParse   the vMix client's _parseXml and _normaliseState       *)
(*   SpecStartup     the listen callback and the outputs' sockets          *)
(*   SpecListener    the shared OSC listener's socket and its flags        *)
(*   SpecHandlers    the aggregator's listeners, statement by statement    *)
(*   SpecVmixPace    the vMix poll loop with requests that take time       *)
(*   SpecChunks      the HyperDeck client's byte stream, chunk by chunk    *)
(*   SpecReporting   a polled HyperDeck and the aggregator's listeners     *)
(* Node's EventEmitter calls listeners synchronously: in Spec a client     *)
(* event and the aggregator's handler for it are one step; the client      *)
(* specifications record the events a step emits.                          *)
(***************************************************************************)
EXTENDS Integers, Sequences, FiniteSets, TLC

VARIABLES
  boot,            \* server.js startup: "boot", "emberInit", "up", "crashed"
  clock,           \* performance.timeOrigin + performance.now()
  deviceStates,    \* server.js: Map<id, DeviceState>
  emberProvider,   \* server.js emberProvider plus the provider's own fields
  tslSender,       \* server.js tslSender plus the sender's own fields
  tslSent,         \* packets handed to socket.send by the last step
  shutdownCalls,   \* the calls the SIGINT handler has made, in order
  tcIn,            \* framesToTimecode: the arguments [totalFrames, fps]
  tcOut,           \* framesToTimecode: the results, once computed
  hd,              \* HyperDeckClient: the instance's connection fields
  hdSockets,       \* net.Socket objects the client created and their state
  hdTimers,        \* pending reconnect timers: timer id -> delay in seconds
  hdEmitted,       \* events the client emitted in the last step
  hdFailures,      \* reconnects scheduled since the last TCP connect
  vmix,            \* VMixClient: the instance's fields
  vmixInFlight,    \* _poll() invocations awaiting _fetchXml()
  vmixOtherTimers, \* pending poll timers this._pollTimer no longer refers to
  vmixEmitted,     \* events the client emitted in the last step
  vmixRun,         \* failed polls completed since the last successful one
  caspar,          \* CasparCGClient: connection flags and stale timer
  casparListener,  \* SharedListener: flags, UDP port, the client's registration
  casparSince,     \* time since _lastUpdateTime, in ticks (saturating)
  casparUntilTick, \* time until the stale checker's next callback, in ticks
  casparEmitted,   \* events the client emitted in the last step
  casparRestarted, \* the stale checker was restarted since the last message
  hdp,             \* HyperDeckClient: parser and transport state fields
  hdpScript,       \* the lines the device sends, in order
  hdpPos,          \* how many of them _processLine has handled
  hdpEvents,       \* the state events emitted so far
  hdpSent,         \* the commands written to the socket so far
  schedLoop,       \* which periodic loop is observed
  schedStart,      \* when the loop was started (its first schedule call)
  schedDue,        \* when the pending timer is due
  schedFires,      \* how many times the timer has fired
  schedLastFire,   \* when it fired last
  oscListener,     \* SharedListener: isRunning, isStarting, the UDP port
  oscRegistry,     \* SharedListener.clients: source IP -> client
  oscClients,      \* the CasparCGClient instances' fields, by device id
  oscWanted,       \* clients whose connect() was called last, not disconnect()
  oscPackets,      \* datagrams the UDP port has delivered so far (Date.now())
  oscEmitted,      \* events the clients emitted in the last step
  oscLastSource,   \* source IP of the datagram the last step handled, or ""
  oscStateLog,     \* each client's last two 'state' events
  emberServers,    \* the EmberServer instances created so far and their state
  emberPushed,     \* the calls of EmberServer.update made by the last step
  emberLastCall,   \* the provider method or request the last step handled
  emberReply,      \* the answer to the last step's setValue request
  emberOverlap,    \* start() was called while an earlier init was pending
  wsSockets,       \* readyState of each WebSocket ("none": not yet connected)
  connectedClients, \* server.js connectedClients
  wsSent,          \* messages the last step sent to WebSocket clients
  wsConfig,        \* server.js config
  wsLastMessage,   \* the client message the last step handled
  wsLastOp,        \* what the WebSocket server did in the last step
  wsGone,          \* sockets that have closed, errored or failed a send
  pktIn,           \* buildV50Packet: screen, device id, name and state
  pktOut,          \* buildV50Packet: the buffer, once built
  tslLastCall,     \* the sender method the last step called
  tslLive,         \* device ids passed to updateDevice and not removed since
  fnIn,            \* the arguments a function under test is called with
  fnOut,           \* what it returned, once called
  slListener,      \* SharedListener: isRunning, isStarting, udpPort
  slSockets,       \* every UDPPort _start created, by status
  slRegistry,      \* SharedListener.clients: source IP -> client
  slWanted,        \* clients that called connect() and not disconnect() since
  slTimers,        \* per client: the _staleTimer handle, intervals running
  slNotified,      \* clients told 'ready' in this run of the listener
  slLastOp,        \* the call or event of the last step
  evRun,           \* the listener on the call stack: device, event, statement
  evPending,       \* listeners suspended at an await
  evLog,           \* the statements run since the listeners in progress began
  evStart,         \* the aggregator's world when the last listener was called
  hdWire,          \* the bytes the HyperDeck sends on the socket, in order
  hdWirePos,       \* how many of them 'data' events have delivered
  hdBuffer         \* HyperDeckClient.buffer

aggVars == <<boot, clock, deviceStates, emberProvider, tslSender, tslSent,
             shutdownCalls>>

tcVars == <<tcIn, tcOut>>

hdVars == <<hd, hdSockets, hdTimers, hdEmitted, hdFailures>>

vmixVars == <<vmix, vmixInFlight, vmixOtherTimers, vmixEmitted, vmixRun>>

casparVars == <<caspar, casparListener, casparSince, casparUntilTick,
                casparEmitted, casparRestarted>>

hdpVars == <<hdp, hdpScript, hdpPos, hdpEvents, hdpSent>>

schedVars == <<schedLoop, schedStart, schedDue, schedFires, schedLastFire>>

oscVars == <<oscListener, oscRegistry, oscClients, oscWanted, oscPackets,
             oscEmitted, oscLastSource, oscStateLog>>

emberVars == <<emberServers, emberPushed, emberLastCall, emberReply, emberOverlap>>

wsVars == <<wsSockets, connectedClients, wsSent, wsConfig, wsLastMessage, wsLastOp, wsGone>>

pktVars == <<pktIn, pktOut>>

tslCallVars == <<tslLastCall, tslLive>>

fnVars == <<fnIn, fnOut>>

slVars == <<slListener, slSockets, slRegistry, slWanted, slTimers, slNotified,
           slLastOp>>

evVars == <<evRun, evPending, evLog, evStart>>

wireVars == <<hdWire, hdWirePos, hdBuffer>>

vars == <<aggVars, tcVars, hdVars, vmixVars, casparVars, hdpVars,
         schedVars,
         oscVars,
         emberVars,
         wsVars,
         pktVars,
         tslCallVars, fnVars, slVars, evVars, wireVars>>

----------------------------------------------------------------------------
(* Bounds of the model. *)

MaxClock == 2

----------------------------------------------------------------------------
(* Configuration (config.json): two playout servers and one TSL           *)
(* destination.  The aggregator treats every client type alike.            *)

Servers == {1, 2}

ServerType(d) == IF d = 1 THEN "hyperdeck" ELSE "vmix"

ServerName(d) == IF d = 1 THEN "DECK 1" ELSE "VMIX 1"

ServerIp(d) == IF d = 1 THEN "192.168.0.201" ELSE "192.168.0.202"

DefaultPort(d) == IF d = 1 THEN 9993 ELSE 8088

DefaultFramerate == 50

TslDestinations == <<"192.168.0.50:4003", "192.168.0.51:4003">>

TslScreen == 0

(* State events a client can hand to the aggregator. *)
Timecodes == {"00:00:00:00", "01:23:45:12"}

Filenames == {"", "clip.mov"}

ClientStates == {"stop", "play", "rec"}

StateEvents ==
  { [state |-> "stop", timecode |-> "00:00:00:00", filename |-> ""],
    [state |-> "play", timecode |-> "01:23:45:12", filename |-> "clip.mov"],
    [state |-> "rec",  timecode |-> "01:23:45:12", filename |-> "clip.mov"] }

----------------------------------------------------------------------------
(* Ember+ provider (emberplus-provider.js). *)

\* what a property lookup on the object literal STATE_TO_INDEX finds on
\* Object.prototype when the key is not one of its own: a function and no
\* index
InheritedProperty == -1

ObjectPrototypeKeys ==
  {"constructor", "toString", "toLocaleString", "valueOf", "hasOwnProperty",
   "isPrototypeOf", "propertyIsEnumerable"}

\* STATE_TO_INDEX[state] ?? STATE_TO_INDEX.offline
STATE_TO_INDEX(s) ==
  CASE s = "stop" -> 0 [] s = "play" -> 1 [] s = "rec" -> 2
    [] s \in ObjectPrototypeKeys -> InheritedProperty
    [] OTHER -> 3

EmberInitialNode == [state |-> 0, timecode |-> "00:00:00:00", filename |-> "", connected |-> FALSE]

\* _buildTree: one node per configured device
EmberBuildTree == [d \in Servers |-> EmberInitialNode]

\* updateDevice(deviceId, partial): fields is the set of fields present
EmberUpdateDevice(ep, d, fields, val) ==
  IF ~ep.isRunning \/ d \notin DOMAIN ep.tree THEN ep
  ELSE [ep EXCEPT !.tree[d] =
          [f \in DOMAIN @ |->
             IF f \in fields
             THEN (IF f = "state" THEN STATE_TO_INDEX(val[f]) ELSE val[f])
             ELSE @[f]]]

----------------------------------------------------------------------------
(* TSL UMD v5.0 sender (tsl-umd-sender.js). *)

TALLY_OFF == 0
TALLY_RED == 1
TALLY_AMBER == 3
BRIGHTNESS_DIM == 1
BRIGHTNESS_FULL == 3

stateToTally(state) ==
  CASE state = "play" -> [rhTally |-> TALLY_RED, txtTally |-> TALLY_RED,
                          lhTally |-> TALLY_OFF, brightness |-> BRIGHTNESS_FULL]
    [] state = "rec"  -> [rhTally |-> TALLY_AMBER, txtTally |-> TALLY_AMBER,
                          lhTally |-> TALLY_OFF, brightness |-> BRIGHTNESS_FULL]
    [] state = "stop" -> [rhTally |-> TALLY_OFF, txtTally |-> TALLY_OFF,
                          lhTally |-> TALLY_OFF, brightness |-> BRIGHTNESS_FULL]
    [] OTHER          -> [rhTally |-> TALLY_OFF, txtTally |-> TALLY_OFF,
                          lhTally |-> TALLY_OFF, brightness |-> BRIGHTNESS_DIM]

\* index & 0xFFFF on a 32-bit two's complement operand
MaskIndex(index) == index % 65536

\* buildV50Packet: the header fields and the text
buildV50Packet(screen, index, display) ==
  [ ver     |-> 128,
    flags   |-> 0,
    screen  |-> screen % 65536,
    index   |-> MaskIndex(index),
    control |-> (display.rhTally % 4) + (display.txtTally % 4) * 4
                + (display.lhTally % 4) * 16 + (display.brightness % 4) * 64,
    text    |-> display.text ]

\* Map.get on the insertion-ordered device map
TslTracked(ts, id) == { i \in 1..Len(ts.deviceStates) : ts.deviceStates[i].id = id }

\* _sendDevice: the packets handed to socket.send, one per destination
TslSendDevice(ts, deviceId) ==
  IF ~ts.isRunning \/ ts.socket = "null" \/ TslTracked(ts, deviceId) = {} THEN <<>>
  ELSE LET device == ts.deviceStates[CHOOSE i \in TslTracked(ts, deviceId) : TRUE]
           tally  == stateToTally(device.state)
           packet == buildV50Packet(ts.screen, deviceId,
                       [text |-> device.name, rhTally |-> tally.rhTally,
                        txtTally |-> tally.txtTally, lhTally |-> tally.lhTally,
                        brightness |-> tally.brightness])
       IN [k \in 1..Len(TslDestinations) |-> [dest |-> TslDestinations[k], packet |-> packet]]

\* Map.set: an existing key keeps its place, a new key is appended
TslMapSet(m, current) ==
  IF \E i \in 1..Len(m) : m[i].id = current.id
  THEN [i \in 1..Len(m) |-> IF m[i].id = current.id THEN current ELSE m[i]]
  ELSE Append(m, current)

\* a comparison that looks at the state alone
TslChangedStateOnly(ts, current) ==
  \/ TslTracked(ts, current.id) = {}
  \/ LET previous == ts.deviceStates[CHOOSE i \in TslTracked(ts, current.id) : TRUE]
     IN previous.state # current.state

\* whether updateDevice sends at once
TslChanged(ts, current) ==
  \/ TslTracked(ts, current.id) = {}
  \/ LET previous == ts.deviceStates[CHOOSE i \in TslTracked(ts, current.id) : TRUE]
     IN previous.state # current.state \/ previous.name # current.name

\* get deviceCount(): the size of the device map
TslDeviceCount(ts) == Len(ts.deviceStates)

\* updateDevice(deviceId, {name, state}): the sender afterwards
TslUpdateDevice(ts, deviceId, name, state) ==
  [ts EXCEPT !.deviceStates = TslMapSet(@, [id |-> deviceId, name |-> name, state |-> state])]

\* updateDevice(deviceId, {name, state}): the packets it sends
TslUpdateSends(ts, deviceId, name, state) ==
  IF TslChanged(ts, [id |-> deviceId, name |-> name, state |-> state])
  THEN TslSendDevice(TslUpdateDevice(ts, deviceId, name, state), deviceId)
  ELSE <<>>

\* constructor: socket is "null", "binding" (bind pending), "bound" or
\* "failed" (the socket reported an error before it was ready)
TslConstructed ==
  [ created |-> TRUE, isRunning |-> FALSE, socket |-> "null", broadcast |-> FALSE,
    screen |-> TslScreen, deviceStates |-> <<>>, refreshTimer |-> FALSE,
    refreshIndex |-> 0, sockets |-> 0, timers |-> 0 ]

\* _scheduleRefresh(): setTimeout; timers counts the pending timeouts
TslScheduleRefresh(ts) ==
  IF ~ts.isRunning THEN ts
  ELSE [ts EXCEPT !.refreshTimer = TRUE, !.timers = @ + 1]

\* a start() without the guard on _isRunning
TslStartUnguarded(ts) ==
  IF Len(TslDestinations) = 0 THEN ts
  ELSE TslScheduleRefresh([ts EXCEPT !.socket = "binding", !.broadcast = FALSE,
                                     !.sockets = @ + 1, !.isRunning = TRUE])

\* start(): createSocket, bind(callback), _isRunning = true, _scheduleRefresh();
\* sockets counts the sockets created and not closed
TslStart(ts) ==
  IF ts.isRunning \/ Len(TslDestinations) = 0 THEN ts
  ELSE TslScheduleRefresh([ts EXCEPT !.socket = "binding", !.broadcast = FALSE,
                                     !.sockets = @ + 1, !.isRunning = TRUE])

\* stop(): clearTimeout, socket.close()
TslStop(ts) ==
  IF ~ts.isRunning THEN ts
  ELSE [ts EXCEPT !.refreshTimer = FALSE,
                  !.timers = IF ts.refreshTimer THEN @ - 1 ELSE @,
                  !.socket = "null",
                  !.sockets = IF ts.socket # "null" THEN @ - 1 ELSE @,
                  !.broadcast = FALSE,
                  !.isRunning = FALSE]

\* the bind callback: setBroadcast(true) unless stop() came first
TslBindCallback(ts) ==
  [ts EXCEPT !.socket = "bound", !.broadcast = TRUE]

\* socket.on('error') before the socket is ready: logged and re-emitted
TslOnSocketError(ts) ==
  [ts EXCEPT !.socket = "failed"]

\* _doRefresh: the device whose packet this tick sends (0: none)
TslRefreshTarget(ts) ==
  IF Len(ts.deviceStates) = 0 THEN 0
  ELSE ts.deviceStates[(ts.refreshIndex % Len(ts.deviceStates)) + 1].id

\* _doRefresh(): the round-robin index
TslDoRefresh(ts) ==
  IF Len(ts.deviceStates) = 0 THEN ts
  ELSE [ts EXCEPT !.refreshIndex = (ts.refreshIndex % Len(ts.deviceStates)) + 1]

\* the refresh timer's callback: _doRefresh(), then _scheduleRefresh()
TslRefreshCallback(ts) ==
  TslScheduleRefresh(TslDoRefresh([ts EXCEPT !.timers = @ - 1]))

\* state.name || `Device ${deviceId}`
TslName(deviceId, name) == IF name = "" THEN "Device " \o ToString(deviceId) ELSE name

\* state.state || 'offline'
TslState(state) == IF state = "" THEN "offline" ELSE state

----------------------------------------------------------------------------
(* Aggregator (server.js): the device store and the client event handlers. *)

InitialDeviceState(d) ==
  [ id |-> d, name |-> ServerName(d), type |-> ServerType(d), ip |-> ServerIp(d),
    port |-> DefaultPort(d), state |-> "offline", timecode |-> "00:00:00:00",
    filename |-> "", framerate |-> DefaultFramerate, updated |-> 0,
    connected |-> FALSE ]

\* client.on('state'): the store
StoreOnState(ds, d, newState, t) ==
  [ds EXCEPT ![d] = [@ EXCEPT !.state = newState.state,
                              !.timecode = newState.timecode,
                              !.filename = newState.filename,
                              !.updated = t,
                              !.connected = TRUE]]

\* a connected handler that stamps the entry with a clock of its own
StoreOnConnectedOtherClock(ds, d, t) ==
  [ds EXCEPT ![d] = [@ EXCEPT !.connected = TRUE, !.updated = 0]]

\* client.on('connected'): the store
StoreOnConnected(ds, d, t) ==
  [ds EXCEPT ![d] = [@ EXCEPT !.connected = TRUE, !.updated = t]]

\* a disconnected handler that clears the clip along with the state
StoreOnDisconnectedClearsClip(ds, d, t) ==
  [ds EXCEPT ![d] = [@ EXCEPT !.state = "offline", !.connected = FALSE, !.updated = t,
                              !.timecode = "00:00:00:00", !.filename = ""]]

\* client.on('disconnected'): the store
StoreOnDisconnected(ds, d, t) ==
  [ds EXCEPT ![d] = [@ EXCEPT !.state = "offline", !.connected = FALSE, !.updated = t]]

(* The aggregator's mutable world as one record, so that a client action   *)
(* can run a sequence of emitted events through the handlers.              *)
World == [store |-> deviceStates, ember |-> emberProvider, tsl |-> tslSender, sent |-> <<>>]

\* the whole handler of one client event: store, then Ember+, then TSL
HandleEvent(w, d, ev) ==
  CASE ev.type = "state" ->
         [ store |-> StoreOnState(w.store, d, ev.state, clock),
           ember |-> IF w.ember.created
                     THEN EmberUpdateDevice(w.ember, d, {"state", "timecode", "filename", "connected"},
                            [state |-> ev.state.state, timecode |-> ev.state.timecode,
                             filename |-> ev.state.filename, connected |-> TRUE])
                     ELSE w.ember,
           tsl   |-> IF w.tsl.created
                     THEN TslUpdateDevice(w.tsl, d, ServerName(d), ev.state.state)
                     ELSE w.tsl,
           sent  |-> IF w.tsl.created
                     THEN w.sent \o TslUpdateSends(w.tsl, d, ServerName(d), ev.state.state)
                     ELSE w.sent ]
    [] ev.type = "connected" ->
         [ w EXCEPT !.store = StoreOnConnected(w.store, d, clock),
                    !.ember = IF w.ember.created
                              THEN EmberUpdateDevice(w.ember, d, {"connected"}, [connected |-> TRUE])
                              ELSE w.ember ]
    [] ev.type = "disconnected" ->
         [ store |-> StoreOnDisconnected(w.store, d, clock),
           ember |-> IF w.ember.created
                     THEN EmberUpdateDevice(w.ember, d, {"state", "connected"},
                            [state |-> "offline", connected |-> FALSE])
                     ELSE w.ember,
           tsl   |-> IF w.tsl.created
                     THEN TslUpdateDevice(w.tsl, d, ServerName(d), "offline")
                     ELSE w.tsl,
           sent  |-> IF w.tsl.created
                     THEN w.sent \o TslUpdateSends(w.tsl, d, ServerName(d), "offline")
                     ELSE w.sent ]
    [] OTHER -> w   \* client.on('error'): logged only

RECURSIVE HandleEvents(_, _, _)
HandleEvents(w, d, evs) ==
  IF evs = <<>> THEN w ELSE HandleEvents(HandleEvent(w, d, Head(evs)), d, Tail(evs))

EvState(s) == [type |-> "state", state |-> s]
EvConnected == [type |-> "connected"]
EvDisconnected == [type |-> "disconnected"]
EvError == [type |-> "error"]

----------------------------------------------------------------------------
(* Initial state: the module-level code of server.js has run, the listen   *)
(* callback has not.                                                       *)

InitAgg ==
  /\ boot = "boot"
  /\ clock = 0
  /\ deviceStates = [d \in Servers |-> InitialDeviceState(d)]
  /\ emberProvider = [created |-> FALSE, isRunning |-> FALSE, tree |-> <<>>]
  /\ tslSender = [TslConstructed EXCEPT !.created = FALSE]
  /\ tslSent = <<>>
  /\ shutdownCalls = <<>>

\* the monotonic clock advances between callbacks
Tick ==
  /\ clock < MaxClock
  /\ clock' = clock + 1
  /\ tslSent' = <<>>
  /\ UNCHANGED <<boot, deviceStates, emberProvider, tslSender, shutdownCalls>>

\* httpServer.listen callback up to `await emberProvider.start(devices)`
ListenCallback ==
  /\ boot = "boot"
  /\ boot' = "emberInit"
  /\ emberProvider' = [created |-> TRUE, isRunning |-> FALSE, tree |-> EmberBuildTree]
  /\ tslSent' = <<>>
  /\ UNCHANGED <<clock, deviceStates, tslSender, shutdownCalls>>

\* new TslUmdSender(...) and tslSender.start(), as server.js calls them
TslStarted == TslStart(TslConstructed)

RECURSIVE RegisterInitial(_, _)
RegisterInitial(w, ids) ==
  IF ids = {} THEN w
  ELSE LET d == CHOOSE x \in ids : \A y \in ids : x <= y
       IN RegisterInitial(
            [w EXCEPT !.tsl = TslUpdateDevice(w.tsl, d, ServerName(d), "offline"),
                      !.sent = w.sent \o TslUpdateSends(w.tsl, d, ServerName(d), "offline")],
            ids \ {d})

\* the rest of the listen callback, once emberProvider.start has settled
EmberStartSettled(ok) ==
  /\ boot = "emberInit"
  /\ boot' = "up"
  /\ emberProvider' = IF ok THEN [emberProvider EXCEPT !.isRunning = TRUE]
                      ELSE [created |-> FALSE, isRunning |-> FALSE, tree |-> <<>>]
  /\ LET w == RegisterInitial([World EXCEPT !.tsl = TslStarted], Servers)
     IN /\ tslSender' = w.tsl
        /\ tslSent' = w.sent
  /\ UNCHANGED <<clock, deviceStates, shutdownCalls>>

\* a protocol client emits one event; the aggregator's listener runs
ClientEvent(d, ev) ==
  /\ boot # "boot"
  /\ LET w == HandleEvent(World, d, ev)
     IN /\ deviceStates' = w.store
        /\ emberProvider' = w.ember
        /\ tslSender' = w.tsl
        /\ tslSent' = w.sent
  /\ UNCHANGED <<boot, clock, shutdownCalls>>

OnState(d) == \E s \in StateEvents : ClientEvent(d, EvState(s))
OnConnected(d) == ClientEvent(d, EvConnected)
OnDisconnected(d) == ClientEvent(d, EvDisconnected)
OnError(d) == ClientEvent(d, EvError)

\* emberProvider.stop()
EmberStop(ep) ==
  IF ~ep.isRunning THEN ep ELSE [ep EXCEPT !.isRunning = FALSE, !.tree = <<>>]

RECURSIVE DisconnectClients(_, _)
\* client.disconnect() for every client, in the order of config.servers; a
\* client that is connected emits 'disconnected' from inside the call
DisconnectClients(w, ids) ==
  IF ids = {} THEN w
  ELSE LET d == CHOOSE x \in ids : \A y \in ids : x <= y
           w1 == IF w.store[d].connected THEN HandleEvent(w, d, EvDisconnected) ELSE w
       IN DisconnectClients(w1, ids \ {d})

RECURSIVE DisconnectCalls(_)
DisconnectCalls(ids) ==
  IF ids = {} THEN <<>>
  ELSE LET d == CHOOSE x \in ids : \A y \in ids : x <= y
       IN <<"client.disconnect">> \o DisconnectCalls(ids \ {d})

\* deviceClients: filled by initialiseClients() in the listen callback
DeviceClients == IF boot = "boot" THEN {} ELSE Servers

\* process.on('SIGINT'): the whole handler
Shutdown ==
  /\ shutdownCalls = <<>>
  /\ LET w0 == [World EXCEPT !.ember = IF @.created THEN EmberStop(@) ELSE @,
                             !.tsl = IF @.created THEN TslStop(@) ELSE @]
         w == DisconnectClients(w0, DeviceClients)
     IN /\ deviceStates' = w.store
        /\ emberProvider' = w.ember
        /\ tslSender' = w.tsl
        /\ tslSent' = w.sent
  /\ shutdownCalls' =
       (IF emberProvider.created THEN <<"emberProvider.stop">> ELSE <<>>)
       \o (IF tslSender.created THEN <<"tslSender.stop">> ELSE <<>>)
       \o DisconnectCalls(DeviceClients)
       \o <<"wss.close">>
  /\ UNCHANGED <<boot, clock>>

NextAgg ==
  \/ Shutdown
  \/ Tick
  \/ ListenCallback
  \/ \E ok \in BOOLEAN : EmberStartSettled(ok)
  \/ \E d \in Servers : OnState(d)
  \/ \E d \in Servers : OnConnected(d)
  \/ \E d \in Servers : OnDisconnected(d)
  \/ \E d \in Servers : OnError(d)


----------------------------------------------------------------------------
(* SpecTsl: a TSL sender on its own, driven through its public methods,    *)
(* its socket's events and its refresh timer.                              *)

TslIds == {1, 65535}

TslNames == {"CAM 1", ""}

TslStates == {"play", "offline"}

NoCall == [op |-> "none"]

TslCallIdle ==
  /\ tslLastCall = NoCall
  /\ tslLive = {}

TslCallStart ==
  /\ tslSender' = TslStart(tslSender)
  /\ tslSent' = <<>>
  /\ UNCHANGED <<boot, clock, deviceStates, emberProvider, shutdownCalls>>
  /\ tslLastCall' = [op |-> "start"]
  /\ UNCHANGED tslLive

TslCallStop ==
  /\ tslSender' = TslStop(tslSender)
  /\ tslSent' = <<>>
  /\ UNCHANGED <<boot, clock, deviceStates, emberProvider, shutdownCalls>>
  /\ tslLastCall' = [op |-> "stop"]
  /\ UNCHANGED tslLive

TslSocketListening ==
  /\ tslSender.socket = "binding"
  /\ tslSender' = TslBindCallback(tslSender)
  /\ tslSent' = <<>>
  /\ UNCHANGED <<boot, clock, deviceStates, emberProvider, shutdownCalls>>
  /\ tslLastCall' = NoCall
  /\ UNCHANGED tslLive

TslSocketError ==
  /\ tslSender.socket = "binding"
  /\ tslSender' = TslOnSocketError(tslSender)
  /\ tslSent' = <<>>
  /\ UNCHANGED <<boot, clock, deviceStates, emberProvider, shutdownCalls>>
  /\ tslLastCall' = NoCall
  /\ UNCHANGED tslLive

TslCallUpdateDevice(id, name, state) ==
  /\ tslSender' = TslUpdateDevice(tslSender, id, TslName(id, name), TslState(state))
  /\ tslSent' = TslUpdateSends(tslSender, id, TslName(id, name), TslState(state))
  /\ UNCHANGED <<boot, clock, deviceStates, emberProvider, shutdownCalls>>
  /\ tslLastCall' = [op |-> "updateDevice", id |-> id, name |-> TslName(id, name), state |-> TslState(state)]
  /\ tslLive' = tslLive \cup {id}

TslCallRemoveDevice(id) ==
  /\ TslTracked(tslSender, id) # {}
  /\ tslSender' = [tslSender EXCEPT !.deviceStates = SelectSeq(@, LAMBDA e : e.id # id)]
  /\ tslSent' = <<>>
  /\ UNCHANGED <<boot, clock, deviceStates, emberProvider, shutdownCalls>>
  /\ tslLastCall' = [op |-> "removeDevice", id |-> id]
  /\ tslLive' = tslLive \ {id}

TslRefreshTimerFires ==
  /\ tslSender.timers > 0
  /\ tslSender' = TslRefreshCallback(tslSender)
  /\ tslSent' = TslSendDevice(tslSender, TslRefreshTarget(tslSender))
  /\ UNCHANGED <<boot, clock, deviceStates, emberProvider, shutdownCalls>>
  /\ tslLastCall' = [op |-> "refresh", id |-> TslRefreshTarget(tslSender)]
  /\ UNCHANGED tslLive

InitTslSender ==
  /\ boot = "boot"
  /\ clock = 0
  /\ deviceStates = [d \in Servers |-> InitialDeviceState(d)]
  /\ emberProvider = [created |-> FALSE, isRunning |-> FALSE, tree |-> <<>>]
  /\ tslSender = TslConstructed
  /\ tslSent = <<>>
  /\ shutdownCalls = <<>>

NextTslSender ==
  \/ TslCallStart
  \/ TslCallStop
  \/ TslSocketListening
  \/ TslSocketError
  \/ \E id \in TslIds, name \in TslNames, state \in TslStates : TslCallUpdateDevice(id, name, state)
  \/ \E id \in TslIds : TslCallRemoveDevice(id)
  \/ TslRefreshTimerFires

----------------------------------------------------------------------------
(* Timecode utilities.  A framerate is held in hundredths of a frame per   *)
(* second (29.97 fps is 2997), so that the arithmetic stays in integers.   *)

Framerates == {2400, 2500, 2997, 3000, 5000, 5994, 6000}

\* Math.round(fps * k) for a framerate in hundredths
RoundFps(fps, k) == (2 * fps * k + 100) \div 200

\* JavaScript's %: the result takes the sign of the dividend
JsRem(a, b) == IF a >= 0 THEN a % b ELSE -((-a) % b)

\* requiresDropFrame: |fps - 29.97| < 0.01 or |fps - 59.94| < 0.01
requiresDropFrame(fps) == fps = 2997 \/ fps = 5994

\* n.toString().padStart(2, '0')
pad2(n) == IF Len(ToString(n)) < 2 THEN "0" \o ToString(n) ELSE ToString(n)

\* a variant of the non-drop branch that leaves the seconds unwrapped
TimecodeFieldsSecondsUnwrapped(totalFrames, fps) ==
  LET roundedFps == RoundFps(fps, 1)
      totalSeconds == totalFrames \div roundedFps
      totalMinutes == totalSeconds \div 60
  IN [ hours |-> totalMinutes \div 60, minutes |-> JsRem(totalMinutes, 60),
       seconds |-> totalSeconds,
       frames |-> JsRem(totalFrames, roundedFps), sep |-> ":" ]

\* framesToTimecode, up to the formatting: the four fields it computes
TimecodeFields(totalFrames, fps) ==
  IF requiresDropFrame(fps)
  THEN LET dropFrames == IF fps > 3000 THEN 4 ELSE 2
           framesPerMinute == RoundFps(fps, 60) - dropFrames
           framesPer10Minutes == RoundFps(fps, 600) - dropFrames * 9
           roundedFps == RoundFps(fps, 1)
           tenMinuteBlocks == totalFrames \div framesPer10Minutes
           remaining0 == JsRem(totalFrames, framesPer10Minutes)
           over == remaining0 >= roundedFps * 60
           remaining1 == remaining0 - roundedFps * 60
           minutes == IF over
                      THEN tenMinuteBlocks * 10 + 1 + (remaining1 \div framesPerMinute)
                      ELSE tenMinuteBlocks * 10
           remainingFrames == IF over THEN JsRem(remaining1, framesPerMinute) ELSE remaining0
       IN [ hours |-> minutes \div 60, minutes |-> JsRem(minutes, 60),
            seconds |-> remainingFrames \div roundedFps,
            frames |-> JsRem(remainingFrames, roundedFps), sep |-> ";" ]
  ELSE LET roundedFps == RoundFps(fps, 1)
           totalSeconds == totalFrames \div roundedFps
           totalMinutes == totalSeconds \div 60
       IN [ hours |-> totalMinutes \div 60, minutes |-> JsRem(totalMinutes, 60),
            seconds |-> JsRem(totalSeconds, 60),
            frames |-> JsRem(totalFrames, roundedFps), sep |-> ":" ]

\* n.toString() for a non-negative integer, character by character
RECURSIVE NumberChars(_)
NumberChars(n) ==
  IF n < 10 THEN <<ToString(n)>> ELSE NumberChars(n \div 10) \o <<ToString(n % 10)>>

\* n.toString().padStart(2, '0'), character by character
Pad2Chars(n) ==
  LET c == IF n < 0 THEN <<"-">> \o NumberChars(-n) ELSE NumberChars(n)
  IN IF Len(c) < 2 THEN <<"0">> \o c ELSE c

\* the characters of the template string
TimecodeChars(t) ==
  Pad2Chars(t.hours) \o <<":">> \o Pad2Chars(t.minutes) \o <<":">>
    \o Pad2Chars(t.seconds) \o <<t.sep>> \o Pad2Chars(t.frames)

\* the template string HH:MM:SS:FF or HH:MM:SS;FF
FormatTimecode(t) ==
  pad2(t.hours) \o ":" \o pad2(t.minutes) \o ":" \o pad2(t.seconds) \o t.sep \o pad2(t.frames)

\* server.js framesToTimecode(totalFrames, fps)
framesToTimecode(totalFrames, fps) == FormatTimecode(TimecodeFields(totalFrames, fps))

\* CasparCGClient._framesToTimecode: the same computation after clamping a
\* negative frame count to zero
CasparFramesToTimecode(totalFrames, fps) ==
  framesToTimecode(IF totalFrames < 0 THEN 0 ELSE totalFrames, fps)

FnIdle ==
  /\ fnIn = [fn |-> "none"]
  /\ fnOut = [done |-> FALSE]

MaxTcFrames == 1805

\* 100 hours of frames at 25 and at 60 frames a second
TcLongFrames == {100 * 3600 * 25, 100 * 3600 * 60}

\* the last frame of an hour and the first of the next, at the integer
\* framerates, up to the end of a day
TcHourEdgeFrames ==
  { h * 3600 * r + d : h \in {1, 10, 23, 24}, r \in {24, 25, 30, 50, 60}, d \in {-1, 0} }

TcFrameInputs == ((-2)..MaxTcFrames) \cup TcLongFrames \cup TcHourEdgeFrames

TcIdle ==
  /\ tcIn = [totalFrames |-> 0, fps |-> 2500]
  /\ tcOut = [done |-> FALSE, server |-> "", casparcg |-> ""]

InitTimecode ==
  /\ tcIn \in [totalFrames : TcFrameInputs, fps : Framerates]
  /\ tcOut = [done |-> FALSE, server |-> "", casparcg |-> ""]

\* both converters applied to the drawn arguments
ConvertTimecode ==
  /\ ~tcOut.done
  /\ tcOut' = [ done |-> TRUE,
                server |-> framesToTimecode(tcIn.totalFrames, tcIn.fps),
                casparcg |-> CasparFramesToTimecode(tcIn.totalFrames, tcIn.fps) ]
  /\ UNCHANGED tcIn

----------------------------------------------------------------------------
(* HyperDeck client (hyperdeck-client.js): connection lifecycle.           *)
(* A socket is "free" (not created, or destroyed with its listeners        *)
(* removed), "connecting", "open", or "closing" (destroyed or failed, its  *)
(* 'close' event still to come).  Every socket that is not free carries    *)
(* the listeners _createConnection attached.                               *)

MaxHdSockets == 2

MaxHdTimers == 2

MaxReconnectAttempt == 6

baseReconnectDelay == 1

maxReconnectDelay == 30

HdSocketIds == 1..MaxHdSockets

HdTimerIds == 1..MaxHdTimers

RECURSIVE Pow2(_)
Pow2(n) == IF n <= 0 THEN 1 ELSE 2 * Pow2(n - 1)

Min(a, b) == IF a <= b THEN a ELSE b

\* constructor
HdConstructed ==
  [ socket |-> 0, connected |-> FALSE, intentionalDisconnect |-> FALSE,
    reconnectAttempt |-> 0, reconnectTimeout |-> 0, pollInterval |-> FALSE,
    crashed |-> FALSE ]

InitHd ==
  /\ hd = HdConstructed
  /\ hdSockets = [s \in HdSocketIds |-> [status |-> "free", timeout |-> FALSE]]
  /\ hdTimers = [t \in HdTimerIds |-> 0]
  /\ hdEmitted = <<>>
  /\ hdFailures = 0

HdFreeSockets == { s \in HdSocketIds : hdSockets[s].status = "free" }

HdFreeTimers == { t \in HdTimerIds : hdTimers[t] = 0 }

HdLiveSockets == { s \in HdSocketIds : hdSockets[s].status # "free" }

HdPendingTimers == { t \in HdTimerIds : hdTimers[t] # 0 }

\* _createConnection: new net.Socket(), setTimeout(5000), listeners, connect
HdCreateConnection(h, socks, s) ==
  [ h |-> [h EXCEPT !.socket = s],
    socks |-> [socks EXCEPT ![s] = [status |-> "connecting", timeout |-> TRUE]] ]

\* the delay _scheduleReconnect computes, in seconds
ReconnectDelay(attempt) == Min(baseReconnectDelay * Pow2(attempt), maxReconnectDelay)

\* _scheduleReconnect: clearTimeout on the pending handle, then a new timer
HdScheduleReconnect(h, timers, t) ==
  LET cleared == IF h.reconnectTimeout # 0
                 THEN [timers EXCEPT ![h.reconnectTimeout] = 0] ELSE timers
  IN [ h |-> [h EXCEPT !.reconnectAttempt = @ + 1, !.reconnectTimeout = t],
       timers |-> [cleared EXCEPT ![t] = ReconnectDelay(h.reconnectAttempt)] ]

\* the timer id setTimeout hands out in _scheduleReconnect
HdNewTimer ==
  LET free == IF hd.reconnectTimeout # 0 THEN HdFreeTimers \cup {hd.reconnectTimeout}
              ELSE HdFreeTimers
  IN CHOOSE t \in free : \A u \in free : t <= u

\* connect()
HdCallConnect ==
  /\ ~hd.crashed
  /\ IF hd.connected \/ hd.socket # 0
     THEN UNCHANGED <<hd, hdSockets>>
     ELSE /\ HdFreeSockets # {}
          /\ LET s == CHOOSE x \in HdFreeSockets : \A y \in HdFreeSockets : x <= y
                 r == HdCreateConnection([hd EXCEPT !.intentionalDisconnect = FALSE], hdSockets, s)
             IN hd' = r.h /\ hdSockets' = r.socks
  /\ hdEmitted' = <<>>
  /\ UNCHANGED <<hdTimers, hdFailures>>

\* the reconnect timer's callback
HdReconnectTimerFires(t) ==
  /\ ~hd.crashed
  /\ hdTimers[t] # 0
  /\ HdFreeSockets # {}
  /\ LET s == CHOOSE x \in HdFreeSockets : \A y \in HdFreeSockets : x <= y
         r == HdCreateConnection([hd EXCEPT !.reconnectTimeout = 0], hdSockets, s)
     IN hd' = r.h /\ hdSockets' = r.socks
  /\ hdTimers' = [hdTimers EXCEPT ![t] = 0]
  /\ hdEmitted' = <<>>
  /\ UNCHANGED hdFailures

\* socket 'connect': _handleConnect.  this.socket.setTimeout(0) throws a
\* TypeError when this.socket is null; nothing catches it.
HdSocketConnect(s) ==
  /\ ~hd.crashed
  /\ hdSockets[s].status = "connecting"
  /\ LET h1 == [hd EXCEPT !.connected = TRUE, !.reconnectAttempt = 0]
         opened == [hdSockets EXCEPT ![s].status = "open"]
     IN IF hd.socket = 0
        THEN /\ hd' = [h1 EXCEPT !.crashed = TRUE]
             /\ hdSockets' = opened
             /\ hdEmitted' = <<>>
        ELSE /\ hd' = [h1 EXCEPT !.pollInterval = TRUE]
             /\ hdSockets' = [opened EXCEPT ![hd.socket].timeout = FALSE]
             /\ hdEmitted' = <<"connected">>
  /\ hdFailures' = 0
  /\ UNCHANGED hdTimers

\* socket 'timeout' (5 s without activity): this.socket.destroy()
HdSocketTimeout(s) ==
  /\ ~hd.crashed
  /\ hdSockets[s].status \in {"connecting", "open"}
  /\ hdSockets[s].timeout
  /\ IF hd.socket = 0
     THEN /\ hd' = [hd EXCEPT !.crashed = TRUE]
          /\ hdSockets' = [hdSockets EXCEPT ![s].timeout = FALSE]
     ELSE /\ hd' = hd
          /\ hdSockets' = [hdSockets EXCEPT ![s].timeout = FALSE,
                                            ![hd.socket].status = "closing"]
  /\ hdEmitted' = <<>>
  /\ UNCHANGED <<hdTimers, hdFailures>>

\* socket 'error' (refused, reset, unreachable): _handleError; 'close' follows
HdSocketError(s) ==
  /\ ~hd.crashed
  /\ hdSockets[s].status \in {"connecting", "open"}
  /\ hdSockets' = [hdSockets EXCEPT ![s].status = "closing"]
  /\ hdEmitted' = <<"error">>
  /\ UNCHANGED <<hd, hdTimers, hdFailures>>

\* the device closes an established connection; 'close' follows
HdSocketEnd(s) ==
  /\ ~hd.crashed
  /\ hdSockets[s].status = "open"
  /\ hdSockets' = [hdSockets EXCEPT ![s].status = "closing"]
  /\ hdEmitted' = <<>>
  /\ UNCHANGED <<hd, hdTimers, hdFailures>>

\* socket 'close': _handleClose
HdSocketClose(s) ==
  /\ ~hd.crashed
  /\ hdSockets[s].status = "closing"
  /\ hd.intentionalDisconnect \/ hd.reconnectAttempt < MaxReconnectAttempt
  /\ hdSockets' = [hdSockets EXCEPT ![s] = [status |-> "free", timeout |-> FALSE]]
  /\ hdEmitted' = IF hd.connected THEN <<"disconnected">> ELSE <<>>
  /\ LET h1 == [hd EXCEPT !.connected = FALSE, !.socket = 0, !.pollInterval = FALSE]
     IN IF hd.intentionalDisconnect
        THEN hd' = h1 /\ UNCHANGED <<hdTimers, hdFailures>>
        ELSE LET r == HdScheduleReconnect(h1, hdTimers, HdNewTimer)
             IN hd' = r.h /\ hdTimers' = r.timers /\ hdFailures' = hdFailures + 1

\* disconnect()
HdCallDisconnect ==
  /\ ~hd.crashed
  /\ hd' = [hd EXCEPT !.intentionalDisconnect = TRUE, !.reconnectTimeout = 0,
                      !.pollInterval = FALSE, !.socket = 0, !.connected = FALSE]
  /\ hdTimers' = IF hd.reconnectTimeout # 0
                 THEN [hdTimers EXCEPT ![hd.reconnectTimeout] = 0] ELSE hdTimers
  /\ hdSockets' = IF hd.socket # 0
                  THEN [hdSockets EXCEPT ![hd.socket] = [status |-> "free", timeout |-> FALSE]]
                  ELSE hdSockets
  /\ hdEmitted' = IF hd.connected THEN <<"disconnected">> ELSE <<>>
  /\ UNCHANGED hdFailures

NextHdClient ==
  \/ HdCallConnect
  \/ HdCallDisconnect
  \/ \E t \in HdTimerIds : HdReconnectTimerFires(t)
  \/ \E s \in HdSocketIds : HdSocketConnect(s)
  \/ \E s \in HdSocketIds : HdSocketTimeout(s)
  \/ \E s \in HdSocketIds : HdSocketError(s)
  \/ \E s \in HdSocketIds : HdSocketEnd(s)
  \/ \E s \in HdSocketIds : HdSocketClose(s)

----------------------------------------------------------------------------
(* vMix client (vmix-client.js): the poll loop.  A poll is two steps, the  *)
(* timer callback that starts _poll() and the completion of the awaited    *)
(* _fetchXml(), which either yields a state or throws.  The handle         *)
(* this._pollTimer is "null", "pending" or "fired" (a handle whose timer   *)
(* has run stays in the field).  The client has an 'error' listener, as    *)
(* server.js attaches one.                                                 *)

MaxVmixInFlight == 2

MaxVmixOtherTimers == 1

MaxVmixFailures == 4

maxConsecutiveFailures == 3

VmixPolledStates == {"play", "stop"}

\* constructor
VmixConstructed ==
  [ isConnected |-> FALSE, isRunning |-> FALSE, pollTimer |-> "null",
    lastGoodState |-> "null", consecutiveFailures |-> 0 ]

InitVmix ==
  /\ vmix = VmixConstructed
  /\ vmixInFlight = 0
  /\ vmixOtherTimers = 0
  /\ vmixEmitted = <<>>
  /\ vmixRun = 0

\* _schedulePoll: a new timer replaces the handle; a pending one it
\* referred to keeps running
VmixSchedulePoll(v, others) ==
  IF ~v.isRunning
  THEN [ v |-> v, others |-> others ]
  ELSE [ v |-> [v EXCEPT !.pollTimer = "pending"],
         others |-> IF v.pollTimer = "pending" THEN others + 1 ELSE others ]

\* the try branch of _poll, after _fetchXml/_parseXml/_normaliseState
VmixPollSucceeded(v, state) ==
  [ v |-> [v EXCEPT !.consecutiveFailures = 0, !.isConnected = TRUE,
                    !.lastGoodState = state],
    emitted |-> (IF ~v.isConnected THEN <<"connected">> ELSE <<>>) \o <<"state">> ]

\* the catch branch of _poll with the disconnect threshold one too low
VmixPollFailedEarly(v) ==
  LET n == v.consecutiveFailures + 1
      drop == v.isConnected /\ n >= maxConsecutiveFailures - 1
  IN [ v |-> [v EXCEPT !.consecutiveFailures = n,
                       !.isConnected = IF drop THEN FALSE ELSE @],
       emitted |-> <<"error">>
                   \o (IF drop THEN <<"disconnected">> ELSE <<>>)
                   \o (IF v.lastGoodState # "null" /\ n < maxConsecutiveFailures
                       THEN <<"state">> ELSE <<>>) ]

\* the catch branch of _poll
VmixPollFailed(v) ==
  LET n == v.consecutiveFailures + 1
      drop == v.isConnected /\ n >= maxConsecutiveFailures
  IN [ v |-> [v EXCEPT !.consecutiveFailures = n,
                       !.isConnected = IF drop THEN FALSE ELSE @],
       emitted |-> <<"error">>
                   \o (IF drop THEN <<"disconnected">> ELSE <<>>)
                   \o (IF v.lastGoodState # "null" /\ n < maxConsecutiveFailures
                       THEN <<"state">> ELSE <<>>) ]

\* connect()
VmixCallConnect ==
  /\ IF vmix.isRunning
     THEN UNCHANGED <<vmix, vmixOtherTimers>>
     ELSE /\ vmix.pollTimer # "pending" \/ vmixOtherTimers < MaxVmixOtherTimers
          /\ LET r == VmixSchedulePoll([vmix EXCEPT !.isRunning = TRUE], vmixOtherTimers)
             IN vmix' = r.v /\ vmixOtherTimers' = r.others
  /\ vmixEmitted' = <<>>
  /\ UNCHANGED <<vmixInFlight, vmixRun>>

\* disconnect()
VmixCallDisconnect ==
  /\ IF ~vmix.isRunning
     THEN vmix' = vmix /\ vmixEmitted' = <<>>
     ELSE /\ vmix' = [vmix EXCEPT !.isRunning = FALSE, !.isConnected = FALSE,
                                  !.pollTimer = "null"]
          /\ vmixEmitted' = IF vmix.isConnected THEN <<"disconnected">> ELSE <<>>
  /\ UNCHANGED <<vmixInFlight, vmixOtherTimers, vmixRun>>

\* the timer this._pollTimer refers to fires: _poll() up to its await
VmixPollTimerFires ==
  /\ vmix.pollTimer = "pending"
  /\ ~vmix.isRunning \/ vmixInFlight < MaxVmixInFlight
  /\ vmix' = [vmix EXCEPT !.pollTimer = "fired"]
  /\ vmixInFlight' = IF vmix.isRunning THEN vmixInFlight + 1 ELSE vmixInFlight
  /\ vmixEmitted' = <<>>
  /\ UNCHANGED <<vmixOtherTimers, vmixRun>>

\* a poll timer the handle no longer refers to fires
VmixOtherTimerFires ==
  /\ vmixOtherTimers > 0
  /\ ~vmix.isRunning \/ vmixInFlight < MaxVmixInFlight
  /\ vmixOtherTimers' = vmixOtherTimers - 1
  /\ vmixInFlight' = IF vmix.isRunning THEN vmixInFlight + 1 ELSE vmixInFlight
  /\ vmixEmitted' = <<>>
  /\ UNCHANGED <<vmix, vmixRun>>

\* an awaited _fetchXml() resolves: the rest of _poll's try branch
VmixPollSucceeds(state) ==
  /\ vmixInFlight > 0
  /\ LET p == VmixPollSucceeded(vmix, state)
         r == VmixSchedulePoll(p.v, vmixOtherTimers)
     IN /\ r.others <= MaxVmixOtherTimers
        /\ vmix' = r.v
        /\ vmixOtherTimers' = r.others
        /\ vmixEmitted' = p.emitted
  /\ vmixInFlight' = vmixInFlight - 1
  /\ vmixRun' = 0

\* an awaited _fetchXml() rejects (timeout, refused, bad XML): catch branch
VmixPollFails ==
  /\ vmixInFlight > 0
  /\ vmix.consecutiveFailures < MaxVmixFailures
  /\ LET p == VmixPollFailed(vmix)
         r == VmixSchedulePoll(p.v, vmixOtherTimers)
     IN /\ r.others <= MaxVmixOtherTimers
        /\ vmix' = r.v
        /\ vmixOtherTimers' = r.others
        /\ vmixEmitted' = p.emitted
  /\ vmixInFlight' = vmixInFlight - 1
  /\ vmixRun' = vmixRun + 1

NextVmixClient ==
  \/ VmixCallConnect
  \/ VmixCallDisconnect
  \/ VmixPollTimerFires
  \/ VmixOtherTimerFires
  \/ \E state \in VmixPolledStates : VmixPollSucceeds(state)
  \/ VmixPollFails

----------------------------------------------------------------------------
(* CasparCG client (osc-casparcg.js): shared listener, first message and   *)
(* stale checker.  Time is counted in ticks, TicksPerSec to the second;    *)
(* timers are ideal: time does not pass while a stale-check callback is    *)
(* due.  The age of the last message saturates above every value the code  *)
(* compares it with.  The fields of _stateCache are left out here.         *)

TicksPerSec == 2

staleTimeoutSec == 5

staleCheckPeriodSec == 1

StaleTimeout == staleTimeoutSec * TicksPerSec

StaleCheckPeriod == staleCheckPeriodSec * TicksPerSec

CasparLongAgo == StaleTimeout + 2 * StaleCheckPeriod

\* constructor
CasparConstructed ==
  [ hasReceivedData |-> FALSE, isConnected |-> FALSE, staleTimer |-> FALSE ]

\* the SharedListener object before any registration
SharedListenerInitial ==
  [ isRunning |-> FALSE, isStarting |-> FALSE, udpPort |-> "none",
    registered |-> FALSE ]

InitCaspar ==
  /\ caspar = CasparConstructed
  /\ casparListener = SharedListenerInitial
  /\ casparSince = CasparLongAgo
  /\ casparUntilTick = 0
  /\ casparEmitted = <<>>
  /\ casparRestarted = FALSE

\* _checkStaleState with the timeout one second short
CheckStaleStateEarly(c, since) ==
  IF ~c.hasReceivedData
  THEN [ c |-> c, emitted |-> <<>> ]
  ELSE IF since > StaleTimeout - TicksPerSec /\ c.isConnected
       THEN [ c |-> [c EXCEPT !.isConnected = FALSE], emitted |-> <<"disconnected">> ]
       ELSE [ c |-> c, emitted |-> <<>> ]

\* _checkStaleState
CheckStaleState(c, since) ==
  IF ~c.hasReceivedData
  THEN [ c |-> c, emitted |-> <<>> ]
  ELSE IF since > StaleTimeout /\ c.isConnected
       THEN [ c |-> [c EXCEPT !.isConnected = FALSE], emitted |-> <<"disconnected">> ]
       ELSE [ c |-> c, emitted |-> <<>> ]

\* _handleSharedListenerReady / _startStaleChecker: a fresh 1 s interval
CasparStartStaleChecker ==
  /\ caspar' = [caspar EXCEPT !.staleTimer = TRUE]
  /\ casparUntilTick' = StaleCheckPeriod
  /\ casparRestarted' = (casparRestarted \/ caspar.isConnected)

\* connect(): SharedListener.register
CasparCallConnect ==
  /\ casparEmitted' = <<>>
  /\ UNCHANGED casparSince
  /\ IF ~casparListener.isRunning /\ ~casparListener.isStarting
     THEN /\ casparListener' = [casparListener EXCEPT !.registered = TRUE,
                                  !.isStarting = TRUE, !.udpPort = "opening"]
          /\ UNCHANGED <<caspar, casparUntilTick, casparRestarted>>
     ELSE /\ casparListener' = [casparListener EXCEPT !.registered = TRUE]
          /\ IF casparListener.isRunning
             THEN CasparStartStaleChecker
             ELSE UNCHANGED <<caspar, casparUntilTick, casparRestarted>>

\* the UDP port's 'ready' event
CasparListenerReady ==
  /\ casparListener.udpPort = "opening"
  /\ casparListener' = [casparListener EXCEPT !.udpPort = "open",
                          !.isRunning = TRUE, !.isStarting = FALSE]
  /\ IF casparListener.registered
     THEN CasparStartStaleChecker
     ELSE UNCHANGED <<caspar, casparUntilTick, casparRestarted>>
  /\ casparEmitted' = <<>>
  /\ UNCHANGED casparSince

\* the UDP port's 'error' event
CasparListenerError ==
  /\ casparListener.udpPort \in {"opening", "open"}
  /\ casparListener' = [casparListener EXCEPT !.isStarting = FALSE,
                          !.udpPort = IF @ = "opening" THEN "failed" ELSE @]
  /\ casparEmitted' = IF casparListener.registered THEN <<"error">> ELSE <<>>
  /\ UNCHANGED <<caspar, casparSince, casparUntilTick, casparRestarted>>

\* an OSC message from the client's source IP: _handleMessage, _handleOscMessage
CasparOscMessage ==
  /\ casparListener.udpPort = "open"
  /\ casparListener.registered
  /\ caspar' = IF ~caspar.hasReceivedData
               THEN [caspar EXCEPT !.hasReceivedData = TRUE, !.isConnected = TRUE]
               ELSE caspar
  /\ casparEmitted' = IF ~caspar.hasReceivedData THEN <<"connected">> ELSE <<>>
  /\ casparSince' = 0
  /\ casparRestarted' = FALSE
  /\ UNCHANGED <<casparListener, casparUntilTick>>

\* the stale checker's interval callback
CasparStaleTick ==
  /\ caspar.staleTimer
  /\ casparUntilTick = 0
  /\ LET r == CheckStaleState(caspar, casparSince)
     IN caspar' = r.c /\ casparEmitted' = r.emitted
  /\ casparUntilTick' = StaleCheckPeriod
  /\ UNCHANGED <<casparListener, casparSince, casparRestarted>>

\* disconnect(): clearInterval, SharedListener.unregister (and _stop)
CasparCallDisconnect ==
  /\ caspar' = [caspar EXCEPT !.staleTimer = FALSE, !.isConnected = FALSE,
                              !.hasReceivedData = FALSE]
  /\ casparListener' =
       IF casparListener.isRunning
       THEN [casparListener EXCEPT !.registered = FALSE, !.udpPort = "none",
                                   !.isRunning = FALSE, !.isStarting = FALSE]
       ELSE [casparListener EXCEPT !.registered = FALSE]
  /\ casparEmitted' = IF caspar.isConnected THEN <<"disconnected">> ELSE <<>>
  /\ casparUntilTick' = 0
  /\ UNCHANGED <<casparSince, casparRestarted>>

\* one tick of time passes
CasparTimePasses ==
  /\ caspar.staleTimer => casparUntilTick > 0
  /\ casparSince' = Min(casparSince + 1, CasparLongAgo)
  /\ casparUntilTick' = IF caspar.staleTimer THEN casparUntilTick - 1 ELSE casparUntilTick
  /\ casparEmitted' = <<>>
  /\ UNCHANGED <<caspar, casparListener, casparRestarted>>

NextCasparClient ==
  \/ CasparCallConnect
  \/ CasparCallDisconnect
  \/ CasparListenerReady
  \/ CasparListenerError
  \/ CasparOscMessage
  \/ CasparStaleTick
  \/ CasparTimePasses

----------------------------------------------------------------------------
(* HyperDeck client (hyperdeck-client.js): the line parser.  A line is     *)
(* given as what the regular expressions of _processLine make of it: a     *)
(* response-code line, a "name: value" line or a blank line.  Timecode     *)
(* values are sequences of characters, so that _normaliseTimecode's        *)
(* patterns can be evaluated; names and other values are already trimmed   *)
(* and in lower case.  An absent field is the empty value, which the code  *)
(* treats alike (it tests truthiness).                                     *)

STATUS_OK == 200

STATUS_SLOT_INFO == 202

STATUS_TRANSPORT_INFO == 208

STATUS_ASYNC_SLOT == 502

STATUS_ASYNC_TRANSPORT == 508

CodeLine(code) == [kind |-> "code", code |-> code, name |-> "", value |-> <<>>]

FieldLine(name, value) == [kind |-> "field", code |-> 0, name |-> name, value |-> value]

BlankLine == [kind |-> "blank", code |-> 0, name |-> "", value |-> <<>>]

Chars(a, b, c, d, e, f, g, h, sep) == <<a, b, ":", c, d, ":", e, f, sep, g, h>>

TcZero == Chars("0", "0", "0", "0", "0", "0", "0", "0", ":")

Tc01234512 == Chars("0", "1", "2", "3", "4", "5", "1", "2", ":")

Tc00001000Drop == Chars("0", "0", "0", "0", "1", "0", "0", "0", ";")

Tc8Digits == <<"0", "1", "2", "3", "4", "5", "1", "2">>

TcBogus == <<"n", "/", "a">>

DigitChars == {"0", "1", "2", "3", "4", "5", "6", "7", "8", "9"}

\* key of a field line: lower case, white space to underscore
FieldKey(name) ==
  CASE name = "status" -> "status"
    [] name = "display timecode" -> "display_timecode"
    [] name = "timecode" -> "timecode"
    [] name = "active slot" -> "active_slot"
    [] name = "slot id" -> "slot_id"
    [] name = "clip name" -> "clip_name"
    [] OTHER -> name

NoFields ==
  [ status |-> <<>>, display_timecode |-> <<>>, timecode |-> <<>>,
    active_slot |-> <<>>, slot_id |-> <<>>, clip_name |-> <<>> ]

HdSetField(fields, key, value) ==
  CASE key = "status" -> [fields EXCEPT !.status = value]
    [] key = "display_timecode" -> [fields EXCEPT !.display_timecode = value]
    [] key = "timecode" -> [fields EXCEPT !.timecode = value]
    [] key = "active_slot" -> [fields EXCEPT !.active_slot = value]
    [] key = "slot_id" -> [fields EXCEPT !.slot_id = value]
    [] key = "clip_name" -> [fields EXCEPT !.clip_name = value]
    [] OTHER -> fields

normaliseTransportState(status) ==
  IF status \in {<<"play">>, <<"playing">>} THEN "play"
  ELSE IF status \in {<<"record">>, <<"recording">>} THEN "rec"
  ELSE "stop"

\* _normaliseTimecode
HdNormaliseTimecode(tc) ==
  IF tc = <<>> THEN TcZero
  ELSE IF /\ Len(tc) = 11
          /\ \A i \in {1, 2, 4, 5, 7, 8, 10, 11} : tc[i] \in DigitChars
          /\ tc[3] = ":" /\ tc[6] = ":" /\ tc[9] \in {":", ";"}
       THEN [tc EXCEPT ![9] = ":"]
  ELSE IF Len(tc) = 8 /\ \A i \in 1..8 : tc[i] \in DigitChars
       THEN Chars(tc[1], tc[2], tc[3], tc[4], tc[5], tc[6], tc[7], tc[8], ":")
  ELSE tc

\* parseInt(fields.active_slot, 10); 0 stands for NaN
HdParseSlot(v) ==
  CASE v = <<"1">> -> 1
    [] v = <<"2">> -> 2
    [] OTHER -> 0

\* _stateChanged that does not look at the filename
HdStateChangedIgnoringFilename(cur, new) ==
  new.state # cur.state \/ new.timecode # cur.timecode

\* _stateChanged
HdStateChanged(cur, new) ==
  new.state # cur.state \/ new.timecode # cur.timecode \/ new.filename # cur.filename

\* _sendCommand
HdSendCommand(p, sent, command) ==
  IF ~p.connected THEN sent ELSE Append(sent, command)

\* the tail of both handlers: update and emit if changed
HdUpdateAndEmit(w, newState) ==
  IF HdStateChanged(w.p.currentState, newState)
  THEN [w EXCEPT !.p.currentState = newState, !.events = Append(@, newState)]
  ELSE w

\* _handleTransportInfo
HdHandleTransportInfo(w, fields) ==
  LET cur == w.p.currentState
      s1 == IF fields.status # <<>>
            THEN [cur EXCEPT !.state = normaliseTransportState(fields.status)]
            ELSE cur
      s2 == IF fields.display_timecode # <<>>
            THEN [s1 EXCEPT !.timecode = HdNormaliseTimecode(fields.display_timecode)]
            ELSE IF fields.timecode # <<>>
                 THEN [s1 EXCEPT !.timecode = HdNormaliseTimecode(fields.timecode)]
                 ELSE s1
      newSlot == HdParseSlot(fields.active_slot)
      w1 == IF fields.active_slot = <<>> THEN w
            ELSE IF newSlot # 0 /\ newSlot # w.p.activeSlot
                 THEN [w EXCEPT !.p.activeSlot = newSlot,
                                !.sent = HdSendCommand(w.p, @, <<"slot info", newSlot>>)]
            ELSE IF newSlot = w.p.activeSlot /\ cur.filename = ""
                 THEN [w EXCEPT !.sent = HdSendCommand(w.p, @, <<"slot info", newSlot>>)]
            ELSE w
  IN HdUpdateAndEmit(w1, s2)

\* _handleSlotInfo
HdHandleSlotInfo(w, fields) ==
  LET cur == w.p.currentState
      s1 == IF fields.clip_name # <<>>
            THEN [cur EXCEPT !.filename = fields.clip_name[1]]
            ELSE cur
  IN HdUpdateAndEmit(w, s1)

\* _handleResponse
HdHandleResponse(w, response) ==
  IF response.code \in {STATUS_TRANSPORT_INFO, STATUS_ASYNC_TRANSPORT}
  THEN HdHandleTransportInfo(w, response.fields)
  ELSE IF response.code \in {STATUS_SLOT_INFO, STATUS_ASYNC_SLOT}
       THEN HdHandleSlotInfo(w, response.fields)
       ELSE w

NoResponse == [code |-> 0, fields |-> NoFields]

\* _processLine
HdProcessLine(w, line) ==
  IF line.kind = "code"
  THEN IF line.code = STATUS_OK \/ line.code < 200
       THEN w
       ELSE [w EXCEPT !.p.currentResponse = [code |-> line.code, fields |-> NoFields]]
  ELSE IF line.kind = "blank" /\ w.p.currentResponse # NoResponse
       THEN [HdHandleResponse(w, w.p.currentResponse) EXCEPT !.p.currentResponse = NoResponse]
  ELSE IF line.kind = "field" /\ w.p.currentResponse # NoResponse
       THEN [w EXCEPT !.p.currentResponse.fields = HdSetField(@, FieldKey(line.name), line.value)]
  ELSE w

\* constructor: the fields the parser and the transport handlers use
HdpConstructed(connected) ==
  [ connected |-> connected, currentResponse |-> NoResponse,
    currentState |-> [state |-> "stop", timecode |-> TcZero, filename |-> ""],
    activeSlot |-> 1 ]

StatusValues == {<<>>, <<"play">>, <<"stopped">>, <<"record">>}

TimecodeLines ==
  { <<>>,
    <<FieldLine("display timecode", Tc01234512)>>,
    <<FieldLine("timecode", Tc00001000Drop)>>,
    <<FieldLine("timecode", TcBogus), FieldLine("display timecode", Tc8Digits)>> }

SlotValues == {<<>>, <<"1">>, <<"2">>}

ClipValues == {<<>>, <<"clip.mov">>}

FieldLineIf(name, value) ==
  IF value = <<>> THEN <<>> ELSE <<FieldLine(name, value)>>

\* the lines of a transport-info response
TransportBlock(code, status, tcLines, slot) ==
  <<CodeLine(code)>> \o FieldLineIf("status", status) \o tcLines
    \o FieldLineIf("active slot", slot) \o <<BlankLine>>

\* the lines of a slot-info response
SlotBlock(code, clip) ==
  <<CodeLine(code), FieldLine("slot id", <<"1">>)>>
    \o FieldLineIf("clip name", clip) \o <<BlankLine>>

\* what a device may send: a solicited transport info then slot info, or
\* the asynchronous notifications in the other order after a "200 ok", or
\* the same transport info polled again around a notification
HdParseScripts ==
  { TransportBlock(STATUS_TRANSPORT_INFO, st, tc, sl) \o SlotBlock(STATUS_SLOT_INFO, cl) :
      st \in StatusValues, tc \in TimecodeLines, sl \in SlotValues, cl \in ClipValues }
  \cup
  { <<CodeLine(STATUS_OK)>> \o SlotBlock(STATUS_ASYNC_SLOT, cl)
      \o TransportBlock(STATUS_ASYNC_TRANSPORT, st, tc, sl) :
      st \in StatusValues, tc \in TimecodeLines, sl \in SlotValues, cl \in ClipValues }
  \cup
  { TransportBlock(STATUS_TRANSPORT_INFO, st, tc, <<>>)
      \o TransportBlock(STATUS_ASYNC_TRANSPORT, st2, tc, <<>>)
      \o TransportBlock(STATUS_TRANSPORT_INFO, st, tc, <<>>) :
      st \in StatusValues, st2 \in StatusValues, tc \in TimecodeLines }

HdpIdle ==
  /\ hdp = HdpConstructed(FALSE)
  /\ hdpScript = <<>>
  /\ hdpPos = 0
  /\ hdpEvents = <<>>
  /\ hdpSent = <<>>

InitHdParse ==
  /\ hdp \in { HdpConstructed(c) : c \in BOOLEAN }
  /\ hdpScript \in HdParseScripts
  /\ hdpPos = 0
  /\ hdpEvents = <<>>
  /\ hdpSent = <<>>

\* the next line of the stream reaches _processLine
HdFeedLine ==
  /\ hdpPos < Len(hdpScript)
  /\ LET w == HdProcessLine([p |-> hdp, events |-> hdpEvents, sent |-> hdpSent],
                            hdpScript[hdpPos + 1])
     IN hdp' = w.p /\ hdpEvents' = w.events /\ hdpSent' = w.sent
  /\ hdpPos' = hdpPos + 1
  /\ UNCHANGED hdpScript

\* the socket closes (_handleClose) or a new one connects (_handleConnect):
\* neither touches currentState, currentResponse or activeSlot
HdConnectionChanges ==
  /\ hdpScript # <<>>
  /\ hdp' = [hdp EXCEPT !.connected = ~@]
  /\ UNCHANGED <<hdpScript, hdpPos, hdpEvents, hdpSent>>

NextHdParser ==
  \/ HdFeedLine
  \/ HdConnectionChanges

----------------------------------------------------------------------------
(* The periodic loops: scheduleNextUpdate (server.js), _schedulePoll       *)
(* (vmix-client.js) and _scheduleRefresh (tsl-umd-sender.js).  Time is in  *)
(* ticks and measured from the loop's start reference (startTime,          *)
(* _pollStartTime); the TSL sender keeps no reference.  A timer fires      *)
(* some latency after it is due and the callback spends some time before   *)
(* it schedules the next timer; both together are at most MaxLatency.      *)

SchedPeriod == 3

MaxLatency == 2

MaxFires == 4

SchedLoops == {"broadcast", "vmix", "tsl"}

\* Math.ceil(elapsed / T) * T
CeilToPeriod(elapsed, period) == ((elapsed + period - 1) \div period) * period

\* scheduleNextUpdate / _schedulePoll: the time the next timer is due
DriftFreeDue(now, period) ==
  LET nextUpdate == CeilToPeriod(now, period)
      delay == IF nextUpdate - now > 0 THEN nextUpdate - now ELSE 0
  IN now + delay

\* _scheduleRefresh: setTimeout(..., refreshIntervalMs)
ChainedDue(now, period) == now + period

SchedDueAfter(loop, now) ==
  IF loop = "tsl" THEN ChainedDue(now, SchedPeriod) ELSE DriftFreeDue(now, SchedPeriod)

SchedIdle ==
  /\ schedLoop = "none"
  /\ schedStart = 0
  /\ schedDue = 0
  /\ schedFires = 0
  /\ schedLastFire = 0

\* the loop's first schedule call: the broadcast loop starts in the listen
\* callback, some time after startTime was taken; connect() takes
\* _pollStartTime itself
InitSched ==
  /\ schedLoop \in SchedLoops
  /\ schedStart \in (IF schedLoop = "vmix" THEN {0} ELSE 0..SchedPeriod)
  /\ schedDue = SchedDueAfter(schedLoop, schedStart)
  /\ schedFires = 0
  /\ schedLastFire = 0

\* the timer fires, the callback does its work and schedules the next timer
SchedTimerFires(loop, latency, work) ==
  /\ schedLoop = loop
  /\ schedFires < MaxFires
  /\ latency + work <= MaxLatency
  /\ schedLastFire' = schedDue + latency
  /\ schedFires' = schedFires + 1
  /\ schedDue' = SchedDueAfter(loop, schedDue + latency + work)
  /\ UNCHANGED <<schedLoop, schedStart>>

BroadcastTimerFires ==
  \E latency, work \in 0..MaxLatency : SchedTimerFires("broadcast", latency, work)

VmixPollTimerDue ==
  \E latency, work \in 0..MaxLatency : SchedTimerFires("vmix", latency, work)

TslRefreshTimerDue ==
  \E latency, work \in 0..MaxLatency : SchedTimerFires("tsl", latency, work)

NextSchedLoops ==
  \/ BroadcastTimerFires
  \/ VmixPollTimerDue
  \/ TslRefreshTimerDue

----------------------------------------------------------------------------
(* CasparCG: the shared listener's registry with several clients, and the  *)
(* clients' OSC state cache (osc-casparcg.js).  The stale checker is left  *)
(* to the single-client component above; of _stateCache the fields         *)
(* filePath, frame and paused are kept (fps stays at the configured        *)
(* framerate, timeSeconds at 0, foregroundFile at '').                     *)

MaxOscPackets == 3

\* config.json: two CasparCG devices, both layers of one server
OscClientIds == {1, 2}
OscClientIp(c) == "10.0.0.10"
OscClientLayer(c) == IF c = 2 THEN 20 ELSE 10
OscFramerate == 5000

\* info.address of a datagram; the last one belongs to no device
OscSourceIps == {"10.0.0.10", "10.0.0.99"}
NoClient == 0

\* OSC messages: address /channel/1/stage/layer/<layer>/<field>, one argument
\* (none in a malformed message); a path is the sequence of its segments
OscMessage(layer, field, value) ==
  [address |-> <<layer, field>>, args |-> <<value>>]
OscShowPath == <<"clips", "show.mov">>
OscMessages ==
  { OscMessage(l, "file/path", OscShowPath) : l \in {10, 20} }
    \cup { OscMessage(l, "paused", p) : l \in {10, 20}, p \in {0, 1} }
    \cup { [address |-> <<10, "paused">>, args |-> <<>>] }
OscBundles ==
  { [packets |-> <<OscMessage(l, "file/path", OscShowPath),
                   OscMessage(l, "file/frame", f),
                   OscMessage(l, "paused", p)>>] :
      l \in {10, 20}, f \in {0, 250}, p \in {0, 1} }

\* CasparCGClient constructor
OscClientConstructed ==
  [ hasReceivedData |-> FALSE, isConnected |-> FALSE, lastUpdateTime |-> 0,
    stateCache |-> [filePath |-> <<>>, frame |-> 0, paused |-> TRUE],
    lastEmittedState |-> <<>> ]

\* a lookup that falls back to some registered client
OscLookupAnyClient(clients, sourceIp) ==
  IF clients[sourceIp] # NoClient THEN clients[sourceIp]
  ELSE IF \E ip \in DOMAIN clients : clients[ip] # NoClient
       THEN clients[CHOOSE ip \in DOMAIN clients : clients[ip] # NoClient]
       ELSE NoClient

\* SharedListener.clients.get(sourceIp)
OscLookup(clients, sourceIp) == clients[sourceIp]

\* CasparCGClient._handleOscMessage at time now: [c, emitted]
HandleOscMessage(id, c, message, now) ==
  IF Len(message.args) = 0 THEN [c |-> c, emitted |-> <<>>]
  ELSE
    LET c0 == IF ~c.hasReceivedData
              THEN [c EXCEPT !.hasReceivedData = TRUE, !.isConnected = TRUE]
              ELSE c
        c1 == [c0 EXCEPT !.lastUpdateTime = now]
        value == message.args[1]
        field == message.address[2]
        c2 == IF message.address[1] # OscClientLayer(id) THEN c1
              ELSE IF field = "file/path" THEN [c1 EXCEPT !.stateCache.filePath = value]
              ELSE IF field = "file/frame" THEN [c1 EXCEPT !.stateCache.frame = value]
              ELSE IF field = "paused" THEN [c1 EXCEPT !.stateCache.paused = (value = 1)]
              ELSE c1
    IN [ c |-> c2,
         emitted |-> IF ~c.hasReceivedData
                     THEN <<[client |-> id, type |-> "connected"]>> ELSE <<>> ]

\* CasparCGClient._buildNormalisedState
BuildNormalisedState(c) ==
  LET path == c.stateCache.filePath
      hasFile == path # <<>>
  IN [ state |-> IF hasFile /\ ~c.stateCache.paused THEN "play" ELSE "stop",
       timecode |-> CasparFramesToTimecode(c.stateCache.frame, OscFramerate),
       filename |-> IF hasFile THEN path[Len(path)] ELSE "" ]

\* the key `${state}|${timecode}|${filename}` as the tuple of its parts
OscStateKey(state) == <<state.state, state.timecode, state.filename>>

\* CasparCGClient._emitStateIfChanged: [c, emitted]
EmitStateIfChanged(id, c) ==
  LET state == BuildNormalisedState(c)
  IN IF c.lastEmittedState # OscStateKey(state)
     THEN [ c |-> [c EXCEPT !.lastEmittedState = OscStateKey(state)],
            emitted |-> <<[client |-> id, type |-> "state", state |-> state]>> ]
     ELSE [c |-> c, emitted |-> <<>>]

\* the loop of CasparCGClient._handleOscBundle over bundle.packets
RECURSIVE HandleOscPackets(_, _, _, _)
HandleOscPackets(id, r, packets, now) ==
  IF packets = <<>> THEN r
  ELSE LET h == HandleOscMessage(id, r.c, Head(packets), now)
       IN HandleOscPackets(id, [c |-> h.c, emitted |-> r.emitted \o h.emitted],
                           Tail(packets), now)

\* CasparCGClient._handleOscBundle
HandleOscBundle(id, c, bundle, now) ==
  LET r == HandleOscPackets(id, [c |-> c, emitted |-> <<>>], bundle.packets, now)
      e == EmitStateIfChanged(id, r.c)
  IN [c |-> e.c, emitted |-> r.emitted \o e.emitted]

\* the state events of a step's emissions, appended to a client's last two
OscStateEvents(id, emitted) ==
  SelectSeq(emitted, LAMBDA e : e.client = id /\ e.type = "state")

OscLastTwo(s) == IF Len(s) <= 2 THEN s ELSE SubSeq(s, Len(s) - 1, Len(s))

OscIdle ==
  /\ oscListener = [isRunning |-> FALSE, isStarting |-> FALSE, udpPort |-> "none"]
  /\ oscRegistry = [ip \in OscSourceIps |-> NoClient]
  /\ oscClients = [c \in OscClientIds |-> OscClientConstructed]
  /\ oscWanted = {}
  /\ oscPackets = 0
  /\ oscEmitted = <<>>
  /\ oscLastSource = ""
  /\ oscStateLog = [c \in OscClientIds |-> <<>>]

InitOsc == OscIdle

\* client.connect(): SharedListener.register
OscCallConnect(id) ==
  /\ oscRegistry' = [oscRegistry EXCEPT ![OscClientIp(id)] = id]
  /\ oscWanted' = oscWanted \cup {id}
  /\ oscListener' = IF ~oscListener.isRunning /\ ~oscListener.isStarting
                    THEN [oscListener EXCEPT !.isStarting = TRUE, !.udpPort = "opening"]
                    ELSE oscListener
  /\ oscEmitted' = <<>>
  /\ oscLastSource' = ""
  /\ UNCHANGED <<oscClients, oscPackets, oscStateLog>>

\* the UDP port's 'ready' event
OscListenerReady ==
  /\ oscListener.udpPort = "opening"
  /\ oscListener' = [oscListener EXCEPT !.udpPort = "open",
                       !.isRunning = TRUE, !.isStarting = FALSE]
  /\ oscEmitted' = <<>>
  /\ oscLastSource' = ""
  /\ UNCHANGED <<oscRegistry, oscClients, oscWanted, oscPackets, oscStateLog>>

\* a disconnect() that also forgets the last emitted state
OscClientDisconnectsForgetting(c) ==
  [c EXCEPT !.isConnected = FALSE, !.hasReceivedData = FALSE,
            !.lastEmittedState = <<>>]

\* what disconnect() assigns to the client's own fields
OscClientDisconnects(c) ==
  [c EXCEPT !.isConnected = FALSE, !.hasReceivedData = FALSE]

\* client.disconnect(): SharedListener.unregister (and _stop), 'disconnected'
OscCallDisconnect(id) ==
  /\ LET clients == [oscRegistry EXCEPT ![OscClientIp(id)] = NoClient]
     IN /\ oscRegistry' = clients
        /\ oscListener' =
             IF (\A ip \in OscSourceIps : clients[ip] = NoClient) /\ oscListener.isRunning
             THEN [oscListener EXCEPT !.udpPort = "none", !.isRunning = FALSE,
                                      !.isStarting = FALSE]
             ELSE oscListener
  /\ oscWanted' = oscWanted \ {id}
  /\ oscClients' = [oscClients EXCEPT ![id] = OscClientDisconnects(@)]
  /\ oscEmitted' = IF oscClients[id].isConnected
                   THEN <<[client |-> id, type |-> "disconnected"]>> ELSE <<>>
  /\ oscLastSource' = ""
  /\ UNCHANGED <<oscPackets, oscStateLog>>

\* what a datagram does once the registry has been consulted
OscDeliver(sourceIp, id, r) ==
  /\ oscPackets < MaxOscPackets
  /\ oscListener.udpPort = "open"
  /\ oscPackets' = oscPackets + 1
  /\ oscLastSource' = sourceIp
  /\ IF id = NoClient
     THEN /\ oscEmitted' = <<>>
          /\ UNCHANGED <<oscClients, oscStateLog>>
     ELSE /\ oscClients' = [oscClients EXCEPT ![id] = r.c]
          /\ oscEmitted' = r.emitted
          /\ oscStateLog' = [oscStateLog EXCEPT ![id] =
                               OscLastTwo(@ \o OscStateEvents(id, r.emitted))]
  /\ UNCHANGED <<oscListener, oscRegistry, oscWanted>>

\* the UDP port's 'message' event: SharedListener._handleMessage
OscMessageArrives(sourceIp, message) ==
  LET id == OscLookup(oscRegistry, sourceIp)
  IN OscDeliver(sourceIp, id,
                IF id = NoClient THEN [c |-> OscClientConstructed, emitted |-> <<>>]
                ELSE HandleOscMessage(id, oscClients[id], message, oscPackets + 1))

\* the UDP port's 'bundle' event: SharedListener._handleBundle
OscBundleArrives(sourceIp, bundle) ==
  LET id == OscLookup(oscRegistry, sourceIp)
  IN OscDeliver(sourceIp, id,
                IF id = NoClient THEN [c |-> OscClientConstructed, emitted |-> <<>>]
                ELSE HandleOscBundle(id, oscClients[id], bundle, oscPackets + 1))

NextOscListener ==
  \/ \E id \in OscClientIds : OscCallConnect(id)
  \/ OscListenerReady
  \/ \E id \in OscClientIds : OscCallDisconnect(id)
  \/ \E ip \in OscSourceIps, m \in OscMessages : OscMessageArrives(ip, m)
  \/ \E ip \in OscSourceIps, b \in OscBundles : OscBundleArrives(ip, b)

----------------------------------------------------------------------------
(* SharedListener (osc-casparcg.js): the life cycle of the shared UDP port *)
(* under connect() and disconnect() calls of the clients and the port's    *)
(* 'ready' and 'error' events, with the clients' stale-check intervals.    *)
(* Every UDPPort that _start creates is kept in slSockets with its status  *)
(* ("opening", "open", "failed", "closed"); an 'error' before 'ready' is a *)
(* bind that failed.  Clients 1 and 2 have the same source IP.             *)

MaxSlSockets == 3

SlClientIds == {1, 2, 3}

SlClientIp(c) == IF c = 3 THEN "10.0.0.11" ELSE "10.0.0.10"

SlIps == { SlClientIp(c) : c \in SlClientIds }

\* the SharedListener object and the clients after construction
SlIdle ==
  /\ slListener = [isRunning |-> FALSE, isStarting |-> FALSE, udpPort |-> 0]
  /\ slSockets = <<>>
  /\ slRegistry = [ip \in SlIps |-> NoClient]
  /\ slWanted = {}
  /\ slTimers = [c \in SlClientIds |-> [staleTimer |-> FALSE, running |-> 0]]
  /\ slNotified = {}
  /\ slLastOp = [op |-> "none"]

\* the clients in SharedListener.clients
SlRegistered(clients) == { clients[ip] : ip \in SlIps } \ {NoClient}

\* the sockets that are bound or binding
SlLiveSockets(sockets) ==
  { s \in DOMAIN sockets : sockets[s] \in {"opening", "open"} }

\* _startStaleChecker: clearInterval of the handle, if any, then setInterval
SlStartStaleChecker(t) ==
  [ staleTimer |-> TRUE,
    running |-> (IF t.staleTimer THEN t.running - 1 ELSE t.running) + 1 ]

\* disconnect()'s clearInterval
SlClearStaleChecker(t) ==
  [ staleTimer |-> FALSE,
    running |-> IF t.staleTimer THEN t.running - 1 ELSE t.running ]

\* client._handleSharedListenerReady() for each client of cs
SlNotifyReady(timers, cs) ==
  [ c \in SlClientIds |->
      IF c \in cs THEN SlStartStaleChecker(timers[c]) ELSE timers[c] ]

\* SharedListener._start: a new UDPPort is opened; if that throws, the
\* catch clears both flags
SlStart(l, sockets, throws) ==
  [ l |-> [ isRunning |-> IF throws THEN FALSE ELSE l.isRunning,
            isStarting |-> ~throws,
            udpPort |-> Len(sockets) + 1 ],
    sockets |-> Append(sockets, IF throws THEN "failed" ELSE "opening") ]

\* SharedListener._stop
SlStop(l, sockets) ==
  [ l |-> [isRunning |-> FALSE, isStarting |-> FALSE, udpPort |-> 0],
    sockets |-> IF l.udpPort = 0 THEN sockets
                ELSE [sockets EXCEPT ![l.udpPort] = "closed"] ]

\* SharedListener.unregister's condition for calling _stop
SlStopsWhenEmpty(l, clients) ==
  SlRegistered(clients) = {} /\ l.isRunning

\* client.connect(): SharedListener.register
SlCallConnect(c) ==
  /\ slRegistry' = [slRegistry EXCEPT ![SlClientIp(c)] = c]
  /\ slWanted' = slWanted \cup {c}
  /\ IF ~slListener.isRunning /\ ~slListener.isStarting
     THEN /\ Len(slSockets) < MaxSlSockets
          /\ \E throws \in BOOLEAN :
               LET r == SlStart(slListener, slSockets, throws)
               IN slListener' = r.l /\ slSockets' = r.sockets
          /\ UNCHANGED <<slTimers, slNotified>>
     ELSE /\ UNCHANGED <<slListener, slSockets>>
          /\ IF slListener.isRunning
             THEN /\ slTimers' = SlNotifyReady(slTimers, {c})
                  /\ slNotified' = slNotified \cup {c}
             ELSE UNCHANGED <<slTimers, slNotified>>
  /\ slLastOp' = [op |-> "register", client |-> c]

\* client.disconnect(): clearInterval, SharedListener.unregister (and _stop)
SlCallDisconnect(c) ==
  LET clients == [slRegistry EXCEPT ![SlClientIp(c)] = NoClient]
      stops == SlStopsWhenEmpty(slListener, clients)
      r == SlStop(slListener, slSockets)
  IN /\ slTimers' = [slTimers EXCEPT ![c] = SlClearStaleChecker(@)]
     /\ slRegistry' = clients
     /\ slWanted' = slWanted \ {c}
     /\ slListener' = IF stops THEN r.l ELSE slListener
     /\ slSockets' = IF stops THEN r.sockets ELSE slSockets
     /\ slNotified' = IF stops THEN {} ELSE slNotified \ {c}
     /\ slLastOp' = [op |-> "unregister", client |-> c]

\* the 'ready' event of UDPPort s
SlSocketReady(s) ==
  /\ slSockets[s] = "opening"
  /\ slSockets' = [slSockets EXCEPT ![s] = "open"]
  /\ slListener' = [slListener EXCEPT !.isRunning = TRUE, !.isStarting = FALSE]
  /\ slTimers' = SlNotifyReady(slTimers, SlRegistered(slRegistry))
  /\ slNotified' = slNotified \cup SlRegistered(slRegistry)
  /\ slLastOp' = [op |-> "ready", socket |-> s]
  /\ UNCHANGED <<slRegistry, slWanted>>

\* the 'error' event of UDPPort s
SlSocketError(s) ==
  /\ slSockets[s] \in {"opening", "open"}
  /\ slSockets' = [slSockets EXCEPT ![s] = IF @ = "opening" THEN "failed" ELSE @]
  /\ slListener' = [slListener EXCEPT !.isStarting = FALSE]
  /\ slLastOp' = [op |-> "error", socket |-> s]
  /\ UNCHANGED <<slRegistry, slWanted, slTimers, slNotified>>

NextSharedListener ==
  \/ \E c \in SlClientIds : SlCallConnect(c)
  \/ \E c \in SlClientIds : SlCallDisconnect(c)
  \/ \E s \in DOMAIN slSockets : SlSocketReady(s)
  \/ \E s \in DOMAIN slSockets : SlSocketError(s)

\* no listener of the aggregator is on the call stack or suspended
NoHandler == [pc |-> 0]

\* no byte has been sent to the HyperDeck client
WireIdle ==
  /\ hdWire = <<>>
  /\ hdWirePos = 0
  /\ hdBuffer = <<>>

EvIdle ==
  /\ evRun = NoHandler
  /\ evPending = {}
  /\ evLog = <<>>
  /\ evStart = NoHandler

----------------------------------------------------------------------------
(* Ember+ provider on its own (emberplus-provider.js): start(), the        *)
(* settling of EmberServer.init, stop(), updateDevice and a consumer's     *)
(* setValue request.  EmberServer is the emberplus-connection library:     *)
(* update(node, {value}) assigns the node's contents.value and notifies    *)
(* the subscribers; a setValue request is applied only if onSetValue       *)
(* resolves to true; one TCP port has at most one listening server.        *)

MaxEmberServers == 2

\* a device id that is not in config.servers
UnknownDevice == 999

EmberDeviceIds == {1, UnknownDevice}

EmberFields == <<"state", "timecode", "filename", "connected">>

\* the partial states passed to updateDevice: fields is the set of fields
\* that are not undefined
EmberPartial(fields, state, timecode, filename, connected) ==
  [ fields |-> fields,
    val |-> [state |-> state, timecode |-> timecode, filename |-> filename,
             connected |-> connected] ]

EmberPartials ==
  { EmberPartial({"state"}, s, "", "", FALSE) :
      s \in {"stop", "play", "rec", "offline", "paused", "constructor"} }
    \cup { EmberPartial({"connected"}, "", "", "", c) : c \in BOOLEAN }
    \cup { EmberPartial({"state", "timecode", "filename", "connected"},
                        "play", "00:00:01:00", "a.mov", TRUE),
           EmberPartial({"timecode", "filename"}, "", "00:00:01:00", "a.mov", FALSE),
           EmberPartial({}, "", "", "", FALSE) }

\* the value updateDevice compares and pushes for a field
EmberValue(field, val) ==
  IF field = "state" THEN STATE_TO_INDEX(val[field]) ELSE val[field]

\* updateDevice: the calls of this._server.update, from the i-th field on
RECURSIVE EmberPushes(_, _, _, _, _)
EmberPushes(ep, d, fields, val, i) ==
  IF ~ep.isRunning \/ d \notin DOMAIN ep.tree \/ i > Len(EmberFields) THEN <<>>
  ELSE (IF EmberFields[i] \in fields
           /\ ep.tree[d][EmberFields[i]] # EmberValue(EmberFields[i], val)
        THEN <<[device |-> d, field |-> EmberFields[i],
                value |-> EmberValue(EmberFields[i], val)]>>
        ELSE <<>>)
       \o EmberPushes(ep, d, fields, val, i + 1)

\* a handler that accepts the request
EmberOnSetValueAccepts(d, field, value) == TRUE

\* the onSetValue handler's result
EmberOnSetValue(d, field, value) == FALSE

\* EmberServer handling a consumer's setValue request
EmberServerSetValue(ep, d, field, value) ==
  IF EmberOnSetValue(d, field, value) /\ d \in DOMAIN ep.tree
  THEN [ep EXCEPT !.tree[d][field] = value]
  ELSE ep

EmberIdle ==
  /\ emberServers = <<>>
  /\ emberPushed = <<>>
  /\ emberLastCall = NoCall
  /\ emberReply = "none"
  /\ emberOverlap = FALSE

\* new EmberPlusProvider(config)
InitEmberProvider ==
  /\ boot = "boot"
  /\ clock = 0
  /\ deviceStates = [d \in Servers |-> InitialDeviceState(d)]
  /\ emberProvider = [created |-> TRUE, isRunning |-> FALSE, tree |-> <<>>]
  /\ tslSender = [TslConstructed EXCEPT !.created = FALSE]
  /\ tslSent = <<>>
  /\ shutdownCalls = <<>>
  /\ EmberIdle

\* start(devices) up to `await this._server.init(this._tree)`
EmberCallStart ==
  /\ emberLastCall' = [op |-> "start"]
  /\ emberPushed' = <<>>
  /\ emberReply' = "none"
  /\ IF emberProvider.isRunning
     THEN UNCHANGED <<emberProvider, emberServers, emberOverlap>>
     ELSE /\ Len(emberServers) < MaxEmberServers
          /\ emberProvider' = [emberProvider EXCEPT !.tree = EmberBuildTree]
          /\ emberServers' = Append(emberServers, "initialising")
          /\ emberOverlap' = (emberOverlap \/ \E i \in DOMAIN emberServers :
                                                 emberServers[i] = "initialising")

\* init settles and the start() that awaited it continues or throws
EmberInitSettles(i, ok) ==
  /\ i \in DOMAIN emberServers
  /\ emberServers[i] = "initialising"
  /\ ok => \A j \in DOMAIN emberServers : emberServers[j] # "listening"
  /\ emberServers' = [emberServers EXCEPT ![i] = IF ok THEN "listening" ELSE "failed"]
  /\ emberProvider' = IF ok THEN [emberProvider EXCEPT !.isRunning = TRUE]
                      ELSE emberProvider
  /\ emberLastCall' = NoCall
  /\ emberPushed' = <<>>
  /\ emberReply' = "none"
  /\ UNCHANGED emberOverlap

\* stop(): discards this._server, the server created last
EmberCallStop ==
  /\ emberLastCall' = [op |-> "stop"]
  /\ emberPushed' = <<>>
  /\ emberReply' = "none"
  /\ emberProvider' = EmberStop(emberProvider)
  /\ emberServers' = IF emberProvider.isRunning
                     THEN [emberServers EXCEPT ![Len(emberServers)] = "discarded"]
                     ELSE emberServers
  /\ UNCHANGED emberOverlap

\* updateDevice(deviceId, state)
EmberCallUpdateDevice(d, partial) ==
  /\ emberLastCall' = [op |-> "updateDevice", id |-> d, partial |-> partial]
  /\ emberPushed' = EmberPushes(emberProvider, d, partial.fields, partial.val, 1)
  /\ emberProvider' = EmberUpdateDevice(emberProvider, d, partial.fields, partial.val)
  /\ emberReply' = "none"
  /\ UNCHANGED <<emberServers, emberOverlap>>

\* a consumer connected to the listening server asks to set a parameter
EmberSetValueRequest(d, field, value) ==
  /\ emberProvider.isRunning
  /\ \E i \in DOMAIN emberServers : emberServers[i] = "listening"
  /\ emberProvider' = EmberServerSetValue(emberProvider, d, field, value)
  /\ emberReply' = IF EmberOnSetValue(d, field, value) THEN "accepted" ELSE "rejected"
  /\ emberLastCall' = [op |-> "setValue", id |-> d, field |-> field, value |-> value]
  /\ emberPushed' = <<>>
  /\ UNCHANGED <<emberServers, emberOverlap>>

NextEmberProvider ==
  \/ EmberCallStart
  \/ \E i \in 1..MaxEmberServers, ok \in BOOLEAN : EmberInitSettles(i, ok)
  \/ EmberCallStop
  \/ \E d \in EmberDeviceIds, partial \in EmberPartials : EmberCallUpdateDevice(d, partial)
  \/ \E d \in Servers : \/ EmberSetValueRequest(d, "state", 1)
                        \/ EmberSetValueRequest(d, "filename", "x.mov")

----------------------------------------------------------------------------
(* WebSocket server (server.js): the set of connected sockets and the      *)
(* messages the dashboard clients send.                                    *)

WsSocketIds == {1, 2}

\* what socket.on('message') receives: the JSON text of an object with the
\* given type, the text "null", or text that is not JSON
WsClientMessages == {"getConfig", "updateSettings", "unknown", "null", "malformed"}

\* config.json as loaded at startup
LoadedConfig == [settings |-> "settings", servers |-> Servers]

NoMessage == [kind |-> "none"]

WsIdle ==
  /\ wsSockets = [s \in WsSocketIds |-> "none"]
  /\ connectedClients = {}
  /\ wsSent = <<>>
  /\ wsConfig = LoadedConfig
  /\ wsLastMessage = NoMessage
  /\ wsLastOp = "none"
  /\ wsGone = {}

\* getProtocolStatus(): enabled and running of the two outputs
GetProtocolStatus ==
  [ emberPlus |-> [enabled |-> emberProvider.created, running |-> emberProvider.isRunning],
    tslUmd |-> [enabled |-> tslSender.created, running |-> tslSender.isRunning] ]

\* the playoutStates message: the store, serialised at the current time
PlayoutStates ==
  [timestamp |-> clock, data |-> deviceStates, protocols |-> GetProtocolStatus]

\* sendStateToClient(socket); throws: socket.send throws and the catch
\* block logs it
SendStateToClient(sockets, s, throws) ==
  IF sockets[s] # "open" \/ throws THEN <<>>
  ELSE <<[to |-> s, type |-> "playoutStates", message |-> PlayoutStates]>>

\* broadcastState(): the sends to the given sockets, in iteration order
RECURSIVE BroadcastSends(_, _)
BroadcastSends(targets, message) ==
  IF targets = {} THEN <<>>
  ELSE LET s == CHOOSE x \in targets : \A y \in targets : x <= y
       IN <<[to |-> s, type |-> "playoutStates", message |-> message]>>
            \o BroadcastSends(targets \ {s}, message)

\* socket.on('message'): JSON.parse and handleClientMessage inside try/catch;
\* a send on a socket that is no longer open delivers nothing
HandleClientMessage(sockets, clients, s, kind) ==
  IF kind = "getConfig" /\ sockets[s] = "open"
  THEN [sent |-> <<[to |-> s, type |-> "config"]>>]
  ELSE [sent |-> <<>>]

\* wss.on('connection')
WsConnection(s) ==
  /\ wsSockets[s] = "none"
  /\ wsSockets' = [wsSockets EXCEPT ![s] = "open"]
  /\ connectedClients' = connectedClients \cup {s}
  /\ \E throws \in BOOLEAN :
       /\ wsSent' = SendStateToClient(wsSockets', s, throws)
       /\ wsGone' = IF throws THEN wsGone \cup {s} ELSE wsGone
  /\ wsLastMessage' = NoMessage
  /\ wsLastOp' = "connection"
  /\ UNCHANGED wsConfig

\* the closing handshake begins: readyState CLOSING
WsClosing(s) ==
  /\ wsSockets[s] = "open"
  /\ wsSockets' = [wsSockets EXCEPT ![s] = "closing"]
  /\ wsSent' = <<>>
  /\ wsLastMessage' = NoMessage
  /\ wsLastOp' = "closing"
  /\ UNCHANGED <<connectedClients, wsConfig, wsGone>>

\* socket.on('message')
WsMessage(s, kind) ==
  /\ wsSockets[s] \in {"open", "closing"}
  /\ wsSent' = HandleClientMessage(wsSockets, connectedClients, s, kind).sent
  /\ wsLastMessage' = [kind |-> kind, socket |-> s]
  /\ wsLastOp' = "message"
  /\ UNCHANGED <<wsSockets, connectedClients, wsConfig, wsGone>>

\* socket.on('close')
WsClose(s) ==
  /\ wsSockets[s] \in {"open", "closing"}
  /\ wsSockets' = [wsSockets EXCEPT ![s] = "closed"]
  /\ connectedClients' = connectedClients \ {s}
  /\ wsSent' = <<>>
  /\ wsLastMessage' = NoMessage
  /\ wsLastOp' = "close"
  /\ wsGone' = wsGone \cup {s}
  /\ UNCHANGED wsConfig

\* socket.on('error')
WsError(s) ==
  /\ wsSockets[s] \in {"open", "closing"}
  /\ wsSockets' = [wsSockets EXCEPT ![s] = "closing"]
  /\ connectedClients' = connectedClients \ {s}
  /\ wsSent' = <<>>
  /\ wsLastMessage' = NoMessage
  /\ wsLastOp' = "error"
  /\ wsGone' = wsGone \cup {s}
  /\ UNCHANGED wsConfig

\* the update loop's timer fires: broadcastState(); failing: the sockets
\* whose send throws
WsBroadcast ==
  \E failing \in SUBSET { s \in connectedClients : wsSockets[s] = "open" } :
    /\ wsSent' = BroadcastSends({ s \in connectedClients : wsSockets[s] = "open" } \ failing,
                                PlayoutStates)
    /\ connectedClients' = connectedClients \ failing
    /\ wsGone' = wsGone \cup failing
    /\ wsLastMessage' = NoMessage
    /\ wsLastOp' = "broadcast"
    /\ UNCHANGED <<wsSockets, wsConfig>>

NextWsServer ==
  \/ \E s \in WsSocketIds : WsConnection(s)
  \/ \E s \in WsSocketIds : WsClosing(s)
  \/ \E s \in WsSocketIds, kind \in WsClientMessages : WsMessage(s, kind)
  \/ \E s \in WsSocketIds : WsClose(s)
  \/ \E s \in WsSocketIds : WsError(s)
  \/ WsBroadcast

----------------------------------------------------------------------------
(* TSL UMD v5.0 packet bytes (tsl-umd-sender.js): buildV50Packet on the    *)
(* arguments _sendDevice passes.  A text is the sequence of its Unicode    *)
(* code points.                                                            *)

\* Buffer.from(text, 'utf8'), one code point
Utf8(cp) ==
  IF cp < 128 THEN <<cp>>
  ELSE IF cp < 2048 THEN <<192 + (cp \div 64), 128 + (cp % 64)>>
  ELSE IF cp < 65536
       THEN <<224 + (cp \div 4096), 128 + ((cp \div 64) % 64), 128 + (cp % 64)>>
       ELSE <<240 + (cp \div 262144), 128 + ((cp \div 4096) % 64),
              128 + ((cp \div 64) % 64), 128 + (cp % 64)>>

RECURSIVE Utf8Bytes(_)
Utf8Bytes(text) ==
  IF text = <<>> THEN <<>> ELSE Utf8(Head(text)) \o Utf8Bytes(Tail(text))

\* the two bytes in the other order
UInt16BE(v) == <<(v \div 256) % 256, v % 256>>

\* buffer.writeUInt16LE(v, offset)
UInt16LE(v) == <<v % 256, (v \div 256) % 256>>

\* buildV50Packet: the buffer
V50PacketBytes(screen, index, display) ==
  LET textBuf == Utf8Bytes(display.text)
      p == buildV50Packet(screen, index, display)
  IN UInt16LE(12 + Len(textBuf)) \o <<p.ver, p.flags>> \o UInt16LE(p.screen)
       \o UInt16LE(p.index) \o UInt16LE(p.control) \o UInt16LE(Len(textBuf))
       \o textBuf

\* _sendDevice: the packet of a tracked device
TslDevicePacketBytes(screen, deviceId, device) ==
  LET tally == stateToTally(device.state)
  IN V50PacketBytes(screen, deviceId,
                    [text |-> device.name, rhTally |-> tally.rhTally,
                     txtTally |-> tally.txtTally, lhTally |-> tally.lhTally,
                     brightness |-> tally.brightness])

\* 'CAM 1', '', 'Ü1', '€', and a character outside the basic plane
PacketNames == {<<67, 65, 77, 32, 49>>, <<>>, <<220, 49>>, <<8364>>, <<128249>>}

PacketScreens == {0, 1, 258, 65535}

PacketDeviceIds == {0, 3, 255, 256, 65534, 65535}

PacketStates == {"play", "rec", "stop", "offline", "paused", "constructor"}

PktIdle ==
  /\ pktIn = [screen |-> 0, id |-> 0, name |-> <<>>, state |-> "offline"]
  /\ pktOut = [done |-> TRUE, bytes |-> <<>>]

InitPacket ==
  /\ pktIn \in [screen : PacketScreens, id : PacketDeviceIds, name : PacketNames,
                state : PacketStates]
  /\ pktOut = [done |-> FALSE, bytes |-> <<>>]

BuildPacket ==
  /\ ~pktOut.done
  /\ pktOut' = [ done |-> TRUE,
                 bytes |-> TslDevicePacketBytes(pktIn.screen, pktIn.id,
                             [name |-> pktIn.name, state |-> pktIn.state]) ]
  /\ UNCHANGED pktIn

----------------------------------------------------------------------------
(* Specifications.                                                         *)

AggIdle == InitAgg

Init == InitAgg /\ TcIdle /\ InitHd /\ InitVmix /\ InitCaspar /\ HdpIdle /\ SchedIdle /\ OscIdle /\ EmberIdle /\ WsIdle /\ PktIdle /\ TslCallIdle /\ FnIdle /\ SlIdle /\ EvIdle /\ WireIdle

Next == NextAgg /\ UNCHANGED <<tcVars, hdVars, vmixVars, casparVars, hdpVars, schedVars, oscVars, emberVars, wsVars, pktVars, tslCallVars, fnVars, slVars, evVars, wireVars>>

Spec == Init /\ [][Next]_vars

InitTsl == InitTslSender /\ TcIdle /\ InitHd /\ InitVmix /\ InitCaspar /\ HdpIdle /\ SchedIdle /\ OscIdle /\ EmberIdle /\ WsIdle /\ PktIdle /\ TslCallIdle /\ FnIdle /\ SlIdle /\ EvIdle /\ WireIdle

NextTsl == NextTslSender /\ UNCHANGED <<tcVars, hdVars, vmixVars, casparVars, hdpVars, schedVars, oscVars, emberVars, wsVars, pktVars, fnVars, slVars, evVars, wireVars>>

SpecTsl == InitTsl /\ [][NextTsl]_vars

InitTc == AggIdle /\ InitTimecode /\ InitHd /\ InitVmix /\ InitCaspar /\ HdpIdle /\ SchedIdle /\ OscIdle /\ EmberIdle /\ WsIdle /\ PktIdle /\ TslCallIdle /\ FnIdle /\ SlIdle /\ EvIdle /\ WireIdle

NextTc == ConvertTimecode /\ UNCHANGED <<aggVars, hdVars, vmixVars, casparVars, hdpVars, schedVars, oscVars, emberVars, wsVars, pktVars, tslCallVars, fnVars, slVars, evVars, wireVars>>

SpecTc == InitTc /\ [][NextTc]_vars

NextHd == NextHdClient /\ UNCHANGED <<aggVars, tcVars, vmixVars, casparVars, hdpVars, schedVars, oscVars, emberVars, wsVars, pktVars, tslCallVars, fnVars, slVars, evVars, wireVars>>

SpecHd == Init /\ [][NextHd]_vars

NextVmix == NextVmixClient /\ UNCHANGED <<aggVars, tcVars, hdVars, casparVars, hdpVars, schedVars, oscVars, emberVars, wsVars, pktVars, tslCallVars, fnVars, slVars, evVars, wireVars>>

SpecVmix == Init /\ [][NextVmix]_vars

NextCaspar == NextCasparClient /\ UNCHANGED <<aggVars, tcVars, hdVars, vmixVars, hdpVars, schedVars, oscVars, emberVars, wsVars, pktVars, tslCallVars, fnVars, slVars, evVars, wireVars>>

SpecCaspar == Init /\ [][NextCaspar]_vars

InitHdp == AggIdle /\ TcIdle /\ InitHd /\ InitVmix /\ InitCaspar /\ InitHdParse /\ SchedIdle /\ OscIdle /\ EmberIdle /\ WsIdle /\ PktIdle /\ TslCallIdle /\ FnIdle /\ SlIdle /\ EvIdle /\ WireIdle

NextHdParse ==
  NextHdParser /\ UNCHANGED <<aggVars, tcVars, hdVars, vmixVars, casparVars, schedVars, oscVars, emberVars, wsVars, pktVars, tslCallVars, fnVars, slVars, evVars, wireVars>>

SpecHdParse == InitHdp /\ [][NextHdParse]_vars

InitSchedLoops == AggIdle /\ TcIdle /\ InitHd /\ InitVmix /\ InitCaspar /\ HdpIdle /\ InitSched /\ OscIdle /\ EmberIdle /\ WsIdle /\ PktIdle /\ TslCallIdle /\ FnIdle /\ SlIdle /\ EvIdle /\ WireIdle

NextSched ==
  NextSchedLoops /\ UNCHANGED <<aggVars, tcVars, hdVars, vmixVars, casparVars, hdpVars, oscVars, emberVars, wsVars, pktVars, tslCallVars, fnVars, slVars, evVars, wireVars>>

SpecSched == InitSchedLoops /\ [][NextSched]_vars

\* the vMix poll loop with requests that may take as long as the request
\* timeout: time in ticks, SchedPeriod ticks to the poll period
\* (pollIntervalMs 500), the timeout (timeoutMs 2000) four periods.  The
\* timer fires up to MaxLatency late; a request takes at least one tick.
VmixTimeoutPeriods == 4

VmixTimeout == VmixTimeoutPeriods * SchedPeriod

\* connect(): _pollStartTime is taken and the first poll scheduled
InitVmixPace ==
  /\ schedLoop = "vmix"
  /\ schedStart = 0
  /\ schedDue = SchedDueAfter("vmix", 0)
  /\ schedFires = 0
  /\ schedLastFire = 0

\* the poll timer fires, _poll awaits _fetchXml for the duration of the
\* request and then calls _schedulePoll
VmixPollPaced ==
  \E latency \in 0..MaxLatency, duration \in 1..VmixTimeout :
    /\ schedLoop = "vmix"
    /\ schedFires < MaxFires
    /\ schedLastFire' = schedDue + latency
    /\ schedFires' = schedFires + 1
    /\ schedDue' = SchedDueAfter("vmix", schedDue + latency + duration)
    /\ UNCHANGED <<schedLoop, schedStart>>

InitVmixPaced ==
  AggIdle /\ TcIdle /\ InitHd /\ InitVmix /\ InitCaspar /\ HdpIdle /\ InitVmixPace /\ OscIdle /\ EmberIdle /\ WsIdle /\ PktIdle /\ TslCallIdle /\ FnIdle /\ SlIdle /\ EvIdle /\ WireIdle

NextVmixPace ==
  VmixPollPaced /\ UNCHANGED <<aggVars, tcVars, hdVars, vmixVars, casparVars, hdpVars, oscVars, emberVars, wsVars, pktVars, tslCallVars, fnVars, slVars, evVars, wireVars>>

SpecVmixPace == InitVmixPaced /\ [][NextVmixPace]_vars


InitOscListener ==
  AggIdle /\ TcIdle /\ InitHd /\ InitVmix /\ InitCaspar /\ HdpIdle /\ SchedIdle /\ InitOsc /\ EmberIdle /\ WsIdle /\ PktIdle /\ TslCallIdle /\ FnIdle /\ SlIdle /\ EvIdle /\ WireIdle
NextOsc ==
  NextOscListener /\ UNCHANGED <<aggVars, tcVars, hdVars, vmixVars, casparVars, hdpVars, schedVars, emberVars, wsVars, pktVars, tslCallVars, fnVars, slVars, evVars, wireVars>>
SpecOsc == InitOscListener /\ [][NextOsc]_vars

\* the state events of one client: a HyperDeck client fed a script, or the
\* CasparCG clients on the shared listener
InitStateEvents ==
  /\ AggIdle /\ TcIdle /\ InitHd /\ InitVmix /\ InitCaspar /\ SchedIdle /\ EmberIdle /\ WsIdle /\ PktIdle /\ TslCallIdle /\ FnIdle /\ SlIdle /\ EvIdle /\ WireIdle
  /\ \/ InitHdParse /\ OscIdle
     \/ HdpIdle /\ InitOsc

NextStateEvents ==
  /\ \/ hdpScript # <<>> /\ NextHdParser /\ UNCHANGED oscVars
     \/ hdpScript = <<>> /\ NextOscListener /\ UNCHANGED hdpVars
  /\ UNCHANGED <<aggVars, tcVars, hdVars, vmixVars, casparVars, schedVars, emberVars, wsVars, pktVars, tslCallVars, fnVars, slVars, evVars, wireVars>>

SpecStateEvents == InitStateEvents /\ [][NextStateEvents]_vars

InitEmber ==
  InitEmberProvider /\ TcIdle /\ InitHd /\ InitVmix /\ InitCaspar /\ HdpIdle /\ SchedIdle /\ OscIdle /\ WsIdle /\ PktIdle /\ TslCallIdle /\ FnIdle /\ SlIdle /\ EvIdle /\ WireIdle

NextEmber ==
  /\ NextEmberProvider
  /\ UNCHANGED <<boot, clock, deviceStates, tslSender, tslSent, shutdownCalls>>
  /\ UNCHANGED <<tcVars, hdVars, vmixVars, casparVars, hdpVars, schedVars, oscVars, wsVars, pktVars, tslCallVars, fnVars, slVars, evVars, wireVars>>

SpecEmber == InitEmber /\ [][NextEmber]_vars

\* the two protocol outputs, each on its own
InitOutputs ==
  /\ TcIdle /\ InitHd /\ InitVmix /\ InitCaspar /\ HdpIdle /\ SchedIdle /\ OscIdle /\ WsIdle /\ PktIdle /\ TslCallIdle /\ FnIdle /\ SlIdle /\ EvIdle /\ WireIdle
  /\ \/ InitTslSender /\ EmberIdle
     \/ InitEmberProvider

NextOutputs ==
  /\ \/ tslSender.created /\ NextTslSender /\ UNCHANGED emberVars
     \/ emberProvider.created /\ NextEmberProvider
          /\ UNCHANGED <<boot, clock, deviceStates, tslSender, tslSent, shutdownCalls>>
          /\ UNCHANGED tslCallVars
  /\ UNCHANGED <<tcVars, hdVars, vmixVars, casparVars, hdpVars, schedVars, oscVars, wsVars, pktVars, fnVars, slVars, evVars, wireVars>>

SpecOutputs == InitOutputs /\ [][NextOutputs]_vars

\* the consumers' inputs: an Ember+ consumer of a constructed provider, or
\* the dashboard clients of the WebSocket server
InitConsumers ==
  /\ TcIdle /\ InitHd /\ InitVmix /\ InitCaspar /\ HdpIdle /\ SchedIdle /\ OscIdle /\ WsIdle /\ PktIdle /\ TslCallIdle /\ FnIdle /\ SlIdle /\ EvIdle /\ WireIdle
  /\ \/ InitEmberProvider
     \/ AggIdle /\ EmberIdle

NextConsumers ==
  /\ \/ emberProvider.created /\ NextEmberProvider /\ UNCHANGED wsVars
     \/ ~emberProvider.created /\ NextWsServer /\ UNCHANGED <<emberProvider, emberVars>>
  /\ UNCHANGED <<boot, clock, deviceStates, tslSender, tslSent, shutdownCalls>>
  /\ UNCHANGED <<tcVars, hdVars, vmixVars, casparVars, hdpVars, schedVars, oscVars, pktVars, tslCallVars, fnVars, slVars, evVars, wireVars>>

SpecConsumers == InitConsumers /\ [][NextConsumers]_vars

----------------------------------------------------------------------------
(* Claims about the aggregator's device store.                             *)

InitPkt ==
  AggIdle /\ TcIdle /\ InitHd /\ InitVmix /\ InitCaspar /\ HdpIdle /\ SchedIdle /\ OscIdle /\ EmberIdle /\ WsIdle /\ InitPacket /\ TslCallIdle /\ FnIdle /\ SlIdle /\ EvIdle /\ WireIdle

NextPkt ==
  BuildPacket /\ UNCHANGED <<aggVars, tcVars, hdVars, vmixVars, casparVars, hdpVars, schedVars, oscVars, emberVars, wsVars, tslCallVars, fnVars, slVars, evVars, wireVars>>

SpecPkt == InitPkt /\ [][NextPkt]_vars

----------------------------------------------------------------------------
(* vMix XML parsing and normalisation (vmix-client.js).  A response body   *)
(* is modelled by what the regular expressions of _parseXml can find in    *)
(* it: whether it has a <vmix root, the text of <recording> and of         *)
(* <duration> if present, and the <input ...> tags in document order with  *)
(* their state and title attributes if present.                            *)

MaxVmixInputs == 2

VmixAbsent == [present |-> FALSE]

VmixText(t) == [present |-> TRUE, text |-> t]

VmixNumber(n) == [present |-> TRUE, text |-> "number", value |-> n]

VmixInputTags ==
  { [state |-> st, title |-> ti] :
      st \in {VmixText("Running"), VmixText("Paused"), VmixText("Completed")},
      ti \in {VmixText("News"), VmixText(""), VmixAbsent} }

VmixInputLists == UNION { [1..n -> VmixInputTags] : n \in 0..MaxVmixInputs }

VmixBodies ==
  { [ root |-> TRUE, recording |-> r, duration |-> d, inputs |-> i ] :
      r \in {VmixText("True"), VmixText("true"), VmixText("False"), VmixAbsent},
      d \in {VmixAbsent, VmixText("abc"), VmixNumber(-5), VmixNumber(0), VmixNumber(1234),
              VmixNumber(60000)},
      i \in VmixInputLists }
  \cup { [ root |-> FALSE, recording |-> VmixAbsent, duration |-> VmixAbsent, inputs |-> <<>> ] }

VmixFramerates == {5000, 2997}

\* String.prototype.toLowerCase on the texts above
VmixToLowerCase(t) ==
  CASE t = "True" -> "true" [] t = "False" -> "false" [] OTHER -> t

\* parseInt(text, 10) || 0
VmixParseInt(el) == IF "value" \in DOMAIN el THEN el.value ELSE 0

\* the first input tag whose state attribute is Running or Paused (0: none)
VmixFirstActive(inputs) ==
  LET active == { k \in 1..Len(inputs) :
                    /\ inputs[k].state.present
                    /\ inputs[k].state.text \in {"Running", "Paused"} }
  IN IF active = {} THEN 0 ELSE CHOOSE k \in active : \A j \in active : k <= j

\* _parseXml(xml): the raw state, or the error it throws
VmixParseXml(xml) ==
  IF ~xml.root THEN [threw |-> TRUE]
  ELSE LET k == VmixFirstActive(xml.inputs)
       IN [ threw |-> FALSE,
            recording |-> xml.recording.present
                            /\ VmixToLowerCase(xml.recording.text) = "true",
            duration |-> IF xml.duration.present THEN VmixParseInt(xml.duration) ELSE 0,
            activeInputTitle |->
              IF k = 0 THEN "null"
              ELSE IF xml.inputs[k].title.present THEN xml.inputs[k].title.text
              ELSE "Unknown",
            activeInputState |-> IF k = 0 THEN "null" ELSE xml.inputs[k].state.text ]

\* _millisecondsToTimecode(ms) for a framerate in hundredths
VmixMillisecondsToTimecode(ms, framerate) ==
  IF ms = 0 \/ ms < 0 THEN "00:00:00:00"
  ELSE LET totalFrames == (ms * framerate) \div 100000
           fps == RoundFps(framerate, 1)
           totalSeconds == totalFrames \div fps
           totalMinutes == totalSeconds \div 60
       IN pad2(totalMinutes \div 60) \o ":" \o pad2(JsRem(totalMinutes, 60)) \o ":"
            \o pad2(JsRem(totalSeconds, 60)) \o ":" \o pad2(JsRem(totalFrames, fps))

\* rawState.activeInputTitle || fallback: null and '' are falsy
VmixTitleOr(title, fallback) == IF title = "null" \/ title = "" THEN fallback ELSE title

\* a normalisation that lets a Running input win over the recording flag
VmixNormaliseStatePlayFirst(rawState, framerate) ==
  [ state |-> IF rawState.activeInputState = "Running" THEN "play"
              ELSE IF rawState.recording THEN "rec" ELSE "stop",
    timecode |-> VmixMillisecondsToTimecode(rawState.duration, framerate),
    filename |-> IF rawState.activeInputState = "Running" THEN VmixTitleOr(rawState.activeInputTitle, "")
                 ELSE IF rawState.recording THEN VmixTitleOr(rawState.activeInputTitle, "Recording")
                 ELSE VmixTitleOr(rawState.activeInputTitle, "") ]

\* _normaliseState(rawState)
VmixNormaliseState(rawState, framerate) ==
  [ state |-> IF rawState.recording THEN "rec"
              ELSE IF rawState.activeInputState = "Running" THEN "play"
              ELSE "stop",
    timecode |-> VmixMillisecondsToTimecode(rawState.duration, framerate),
    filename |-> IF rawState.recording THEN VmixTitleOr(rawState.activeInputTitle, "Recording")
                 ELSE IF rawState.activeInputState = "Running"
                      THEN VmixTitleOr(rawState.activeInputTitle, "")
                 ELSE IF rawState.activeInputState = "Paused"
                      THEN VmixTitleOr(rawState.activeInputTitle, "")
                 ELSE "" ]

InitVmixParse ==
  /\ fnIn \in [fn : {"vmix"}, xml : VmixBodies, framerate : VmixFramerates]
  /\ fnOut = [done |-> FALSE]

\* _poll's try branch: _parseXml, then _normaliseState
VmixParseAndNormalise ==
  /\ fnIn.fn = "vmix"
  /\ ~fnOut.done
  /\ LET rawState == VmixParseXml(fnIn.xml)
     IN fnOut' = IF rawState.threw THEN [done |-> TRUE, threw |-> TRUE]
                 ELSE [ done |-> TRUE, threw |-> FALSE, rawState |-> rawState,
                        state |-> VmixNormaliseState(rawState, fnIn.framerate) ]
  /\ UNCHANGED fnIn

InitVmixParser ==
  AggIdle /\ TcIdle /\ InitHd /\ InitVmix /\ InitCaspar /\ HdpIdle /\ SchedIdle /\ OscIdle /\ EmberIdle /\ WsIdle /\ PktIdle /\ TslCallIdle /\ InitVmixParse /\ SlIdle /\ EvIdle /\ WireIdle

NextVmixParse ==
  VmixParseAndNormalise /\ UNCHANGED <<aggVars, tcVars, hdVars, vmixVars, casparVars, hdpVars, schedVars, oscVars, emberVars, wsVars, pktVars, tslCallVars, slVars, evVars, wireVars>>

SpecVmixParse == InitVmixParser /\ [][NextVmixParse]_vars

NextListener == NextSharedListener /\ UNCHANGED <<aggVars, tcVars, hdVars, vmixVars, casparVars, hdpVars, schedVars, oscVars, emberVars, wsVars, pktVars, tslCallVars, fnVars, evVars, wireVars>>

SpecListener == Init /\ [][NextListener]_vars

----------------------------------------------------------------------------
(* The server process from the listen callback on, with the sockets of the *)
(* two protocol outputs opening or failing to open, the protocol clients   *)
(* emitting events and the update loop broadcasting.                       *)

\* the bind callback of the sender that server.js started
ServerTslSocketListening ==
  /\ boot = "up"
  /\ tslSender.created
  /\ tslSender.socket = "binding"
  /\ tslSender' = TslBindCallback(tslSender)
  /\ tslSent' = <<>>
  /\ UNCHANGED <<boot, clock, deviceStates, emberProvider, shutdownCalls>>

\* the socket's 'error' event on the sender that server.js started: the
\* handler logs and calls this.emit('error', error); server.js attaches no
\* 'error' listener to the sender, so emit throws, the exception is
\* uncaught and the process exits
ServerTslSocketError ==
  /\ boot = "up"
  /\ tslSender.created
  /\ tslSender.socket = "binding"
  /\ tslSender' = TslOnSocketError(tslSender)
  /\ boot' = "crashed"
  /\ tslSent' = <<>>
  /\ UNCHANGED <<clock, deviceStates, emberProvider, shutdownCalls>>

\* the update loop, started at the end of the listen callback
ServerBroadcastTimerFires == boot = "up" /\ WsBroadcast

ServerOthersIdle ==
  UNCHANGED <<tcVars, hdVars, vmixVars, casparVars, hdpVars, schedVars, oscVars, emberVars, pktVars, tslCallVars, fnVars, slVars, evVars, wireVars>>

ServerAggIdle == UNCHANGED <<boot, clock, deviceStates, emberProvider, tslSender, tslSent, shutdownCalls>>

\* the clients that emit events during startup
StartupClients == {1}

\* the process has not exited
ServerAlive == boot # "crashed"

NextStartup ==
  \/ ServerAlive /\ ListenCallback /\ UNCHANGED wsVars /\ ServerOthersIdle
  \/ \E ok \in BOOLEAN :
       ServerAlive /\ EmberStartSettled(ok) /\ UNCHANGED wsVars /\ ServerOthersIdle
  \/ ServerAlive /\ ServerTslSocketListening /\ UNCHANGED wsVars /\ ServerOthersIdle
  \/ ServerAlive /\ ServerTslSocketError /\ UNCHANGED wsVars /\ ServerOthersIdle
  \/ \E d \in StartupClients :
       ServerAlive /\ OnState(d) /\ UNCHANGED wsVars /\ ServerOthersIdle
  \/ \E d \in StartupClients :
       ServerAlive /\ OnConnected(d) /\ UNCHANGED wsVars /\ ServerOthersIdle
  \/ \E d \in StartupClients :
       ServerAlive /\ OnDisconnected(d) /\ UNCHANGED wsVars /\ ServerOthersIdle
  \/ \E s \in WsSocketIds :
       ServerAlive /\ boot # "boot" /\ WsConnection(s) /\ ServerAggIdle /\ ServerOthersIdle
  \/ ServerAlive /\ ServerBroadcastTimerFires /\ ServerAggIdle /\ ServerOthersIdle

SpecStartup == Init /\ [][NextStartup]_vars

----------------------------------------------------------------------------
(* The aggregator's client listeners statement by statement (server.js).   *)
(* Node runs one callback at a time: the event loop calls the next one     *)
(* (a client event, the update loop's timer, a new WebSocket connection,   *)
(* the rest of the listen callback) only when the call stack is empty,     *)
(* that is when the running listener has returned or is suspended at an    *)
(* await.  evLog records the statements run, and the callbacks that came   *)
(* in between, from the moment a listener is called with no other listener *)
(* in progress.                                                            *)

\* the statements of a client listener, in source order
EvStatements(ev) ==
  CASE ev.type = "state" -> <<"store", "ember", "tsl">>
    [] ev.type = "connected" -> <<"store", "ember">>
    [] ev.type = "disconnected" -> <<"store", "ember", "tsl">>
    [] OTHER -> <<"log">>

\* a listener that awaits after the store mutation
HandlerYieldsAfterStore(ev, stmt) == stmt = "store"

\* whether the listener is suspended after the statement: the listeners
\* are plain functions without await
HandlerYields(ev, stmt) == FALSE

\* one statement of the listener of event ev of device d
EvExec(w, d, ev, stmt) ==
  CASE stmt = "store" ->
         [w EXCEPT !.store =
            CASE ev.type = "state" -> StoreOnState(@, d, ev.state, clock)
              [] ev.type = "connected" -> StoreOnConnected(@, d, clock)
              [] OTHER -> StoreOnDisconnected(@, d, clock)]
    [] stmt = "ember" ->
         IF ~w.ember.created THEN w
         ELSE [w EXCEPT !.ember =
                 CASE ev.type = "state" ->
                        EmberUpdateDevice(@, d, {"state", "timecode", "filename", "connected"},
                          [state |-> ev.state.state, timecode |-> ev.state.timecode,
                           filename |-> ev.state.filename, connected |-> TRUE])
                   [] ev.type = "connected" ->
                        EmberUpdateDevice(@, d, {"connected"}, [connected |-> TRUE])
                   [] OTHER ->
                        EmberUpdateDevice(@, d, {"state", "connected"},
                          [state |-> "offline", connected |-> FALSE])]
    [] stmt = "tsl" ->
         LET state == IF ev.type = "state" THEN ev.state.state ELSE "offline"
         IN IF ~w.tsl.created THEN w
            ELSE [w EXCEPT !.tsl = TslUpdateDevice(@, d, ServerName(d), state),
                           !.sent = @ \o TslUpdateSends(w.tsl, d, ServerName(d), state)]
    [] OTHER -> w

\* the call stack is empty
EvLoopFree == evRun = NoHandler

\* the listener h runs the statement it stands at
EvRunStatement(h, log) ==
  LET stmts == EvStatements(h.ev)
      stmt == stmts[h.pc]
      w == EvExec(World, h.d, h.ev, stmt)
      next == [h EXCEPT !.pc = @ + 1]
      done == h.pc = Len(stmts)
      yields == ~done /\ HandlerYields(h.ev, stmt)
  IN /\ deviceStates' = w.store
     /\ emberProvider' = w.ember
     /\ tslSender' = w.tsl
     /\ tslSent' = w.sent
     /\ evRun' = IF done \/ yields THEN NoHandler ELSE next
     /\ evPending' = IF yields THEN (evPending \ {h}) \cup {next} ELSE evPending \ {h}
     /\ evLog' = Append(log, [d |-> h.d, stmt |-> stmt])
     /\ UNCHANGED <<boot, clock, shutdownCalls>>

\* a client emits an event: its listener is called and runs its first
\* statement
EvDispatch(d, ev) ==
  /\ boot # "boot"
  /\ EvLoopFree
  /\ EvRunStatement([pc |-> 1, d |-> d, ev |-> ev],
                    IF evPending = {} THEN <<>> ELSE evLog)
  /\ evStart' = [pc |-> 1, d |-> d, ev |-> ev, w |-> World]

\* the listener on the stack, or one whose await has settled, goes on
EvStep ==
  /\ \E h \in (IF EvLoopFree THEN evPending ELSE {evRun}) :
       EvRunStatement(h, evLog)
  /\ UNCHANGED evStart

\* another callback of the server runs
EvOtherCallback ==
  /\ EvLoopFree
  /\ evLog' = IF evPending = {} THEN <<>>
              ELSE Append(evLog, [d |-> 0, stmt |-> "callback"])
  /\ evStart' = IF evPending = {} THEN NoHandler ELSE evStart
  /\ UNCHANGED <<evRun, evPending>>

\* the events the clients emit: every kind from device 1, a playing state
\* and the loss of the connection from device 2
EvEvents(d) ==
  IF d = 1
  THEN { EvState(st) : st \in { e \in StateEvents : e.state \in {"play", "stop"} } }
       \cup {EvConnected, EvDisconnected, EvError}
  ELSE { EvState(st) : st \in { e \in StateEvents : e.state = "play" } }
       \cup {EvDisconnected}

EvOthersIdle ==
  UNCHANGED <<tcVars, hdVars, vmixVars, casparVars, hdpVars, schedVars, oscVars, emberVars, pktVars, tslCallVars, fnVars, slVars, wireVars>>

NextHandlers ==
  \/ ListenCallback /\ EvOtherCallback /\ UNCHANGED wsVars /\ EvOthersIdle
  \/ \E ok \in BOOLEAN :
       EmberStartSettled(ok) /\ EvOtherCallback /\ UNCHANGED wsVars /\ EvOthersIdle
  \/ \E d \in Servers : \E ev \in EvEvents(d) :
       EvDispatch(d, ev) /\ UNCHANGED wsVars /\ EvOthersIdle
  \/ EvStep /\ UNCHANGED wsVars /\ EvOthersIdle
  \/ \E s \in StartupClients :
       boot # "boot" /\ WsConnection(s) /\ EvOtherCallback /\ ServerAggIdle /\ EvOthersIdle
  \/ ServerBroadcastTimerFires /\ EvOtherCallback /\ ServerAggIdle /\ EvOthersIdle

SpecHandlers == Init /\ [][NextHandlers]_vars

\* the TSL sender's refresh cycle while devices come and go; the refresh
\* timer is a setTimeout chain, so a pending timeout does fire
TslRefreshIds == {1, 2, 3}

TslOthersIdle ==
  UNCHANGED <<tcVars, hdVars, vmixVars, casparVars, hdpVars, schedVars, oscVars, emberVars, wsVars, pktVars, fnVars, slVars, evVars, wireVars>>

TslRefreshTick == TslRefreshTimerFires /\ TslOthersIdle

NextTslRefresh ==
  \/ TslCallStart /\ TslOthersIdle
  \/ TslCallStop /\ TslOthersIdle
  \/ \E id \in TslRefreshIds : TslCallUpdateDevice(id, "", "play") /\ TslOthersIdle
  \/ \E id \in TslRefreshIds : TslCallRemoveDevice(id) /\ TslOthersIdle
  \/ TslRefreshTick

SpecTslRefresh == InitTsl /\ [][NextTslRefresh]_vars /\ WF_vars(TslRefreshTick)


\* C1: every device of the store whose state is 'offline' has
\* connected = false, after any sequence of client events.
C1_OfflineImpliesNotConnected ==
  \A d \in Servers : deviceStates[d].state = "offline" => ~deviceStates[d].connected

\* C2: a disconnected event sets the device's state to 'offline' and
\* connected to false and leaves its timecode, filename and configuration
\* fields as they were.
C2_DisconnectedFrame ==
  [][\A d \in Servers :
       OnDisconnected(d) =>
         /\ deviceStates'[d].state = "offline"
         /\ deviceStates'[d].connected = FALSE
         /\ \A f \in {"timecode", "filename", "id", "name", "type", "ip", "port", "framerate"} :
              deviceStates'[d][f] = deviceStates[d][f]]_vars

\* a device that went offline after it had reported a clip
C2_Witness ==
  \E d \in Servers :
    /\ deviceStates[d].state = "offline"
    /\ ~deviceStates[d].connected
    /\ deviceStates[d].timecode = "01:23:45:12"
    /\ deviceStates[d].filename = "clip.mov"

----------------------------------------------------------------------------
(* Claims about the timecode utilities.                                    *)

\* C9: at a drop-frame rate the frame numbers 00..(D-1) are skipped at the
\* start of every minute not divisible by ten (D = 2 at 29.97, 4 at 59.94);
\* framesToTimecode(1800, 29.97) = '00:01:00;02'.
C9_DropFrameSkipsNumbers ==
  (tcOut.done /\ requiresDropFrame(tcIn.fps) /\ tcIn.totalFrames >= 0) =>
    LET t == TimecodeFields(tcIn.totalFrames, tcIn.fps)
        D == IF tcIn.fps = 2997 THEN 2 ELSE 4
    IN /\ (tcIn.fps = 2997 /\ tcIn.totalFrames = 1800) =>
            (tcOut.server = "00:01:00;02" /\ tcOut.casparcg = "00:01:00;02")
       /\ (t.minutes % 10 # 0 /\ t.seconds = 0) => t.frames >= D

----------------------------------------------------------------------------
(* Claims about the TSL sender.                                            *)

\* C7: the sender is running only once its socket has opened and broadcast
\* is enabled; after a socket error before ready it is not running and no
\* refresh timer is pending.
C7_RunningOnlyAfterBind ==
  /\ tslSender.isRunning => (tslSender.socket = "bound" /\ tslSender.broadcast)
  /\ tslSender.socket = "failed" => (~tslSender.isRunning /\ ~tslSender.refreshTimer)

\* C8: no packet handed to the socket carries INDEX 0xFFFF.
C8_NoBroadcastIndex ==
  \A i \in 1..Len(tslSent) : tslSent[i].packet.index # 65535

\* C3: unless disconnect() was called, every failed HyperDeck attempt
\* (refused, socket error, 5 s connect timeout) and every loss of an
\* established connection schedules exactly one reconnect attempt: a socket
\* that times out is torn down by its handler, and every 'close' leaves
\* exactly one reconnect timer pending, whose delay before the k-th
\* consecutive attempt without a successful connect in between is
\* min(2^(k-1), 30) seconds (so 1 s again after a successful connect).
C3_ReconnectBackoff ==
  [][ /\ \A s \in HdSocketIds :
           HdSocketTimeout(s) =>
             (~hd'.crashed /\ hdSockets'[s].status = "closing")
      /\ \A s \in HdSocketIds :
           (HdSocketClose(s) /\ ~hd.intentionalDisconnect) =>
             /\ Cardinality(HdPendingTimers') = 1
             /\ \A t \in HdPendingTimers' :
                  hdTimers'[t] = Min(Pow2(hdFailures' - 1), 30)
    ]_vars

\* C4: disconnect() in any phase leaves no reconnect timer, no socket and no
\* poll timer, emits 'disconnected' exactly when the client was connected,
\* and no new connection attempt is made until connect() is called again.
C4_DisconnectStopsEverything ==
  [][ /\ HdCallDisconnect =>
           /\ HdPendingTimers' = {}
           /\ HdLiveSockets' = {}
           /\ ~hd'.pollInterval
           /\ hdEmitted' = (IF hd.connected THEN <<"disconnected">> ELSE <<>>)
      /\ (hd.intentionalDisconnect /\ hd'.intentionalDisconnect) =>
           /\ HdLiveSockets' \subseteq HdLiveSockets
           /\ HdPendingTimers' = {}
    ]_vars


\* the number of times the last step emitted event e
VmixEmittedCount(e) ==
  Cardinality({ i \in DOMAIN vmixEmitted : vmixEmitted[i] = e })

\* C5: for a connected vMix client a failed poll emits 'disconnected'
\* exactly once when it is the 3rd consecutive failure and not at all when
\* it is the 1st or 2nd or a later one (the client is then no longer
\* connected until a poll succeeds); a successful poll resets the
\* consecutive-failure count to zero.
C5_ThreeFailuresDisconnect ==
  [][ /\ VmixPollFails =>
           VmixEmittedCount("disconnected")' =
             (IF vmix.isConnected /\ vmixRun' = 3 THEN 1 ELSE 0)
      /\ (VmixPollFails /\ vmixRun' > 3) => ~vmix.isConnected
      /\ \A state \in VmixPolledStates :
           VmixPollSucceeds(state) => vmix'.consecutiveFailures = 0
    ]_vars

\* a connected client has just completed its 3rd consecutive failed poll
C5_Witness ==
  /\ vmixRun = 3
  /\ vmixEmitted = <<"error", "disconnected">>
  /\ ~vmix.isConnected
  /\ vmix.lastGoodState # "null"


HdpScenario ==
  TransportBlock(STATUS_TRANSPORT_INFO, <<"play">>,
                 <<FieldLine("display timecode", Tc01234512)>>, <<"1">>)
    \o SlotBlock(STATUS_SLOT_INFO, <<"clip.mov">>)

HdpScenarioFed ==
  /\ hdpScript = HdpScenario
  /\ ~hdp.connected
  /\ hdpPos = Len(hdpScript)

HdpPlayWithClip ==
  [state |-> "play", timecode |-> Tc01234512, filename |-> "clip.mov"]

\* C10 as stated: fed the lines of the transport-info sequence, a freshly
\* constructed client has emitted exactly one state event, equal to
\* {state:'play', timecode:'01:23:45:12', filename:'clip.mov'}.
C10_OneStateEvent ==
  HdpScenarioFed => hdpEvents = <<HdpPlayWithClip>>

\* C10 amended: fed the lines of the transport-info sequence, a freshly
\* constructed client has emitted exactly two state events, first
\* {state:'play', timecode:'01:23:45:12', filename:''} when the 208
\* response ends and then {state:'play', timecode:'01:23:45:12',
\* filename:'clip.mov'} when the 202 response ends.
C10_TwoStateEvents ==
  HdpScenarioFed =>
    hdpEvents = << [HdpPlayWithClip EXCEPT !.filename = ""], HdpPlayWithClip >>

\* all nine lines of the sequence have been handled by a fresh client
C10_Witness ==
  /\ HdpScenarioFed
  /\ hdp.currentState = HdpPlayWithClip
  /\ hdp.currentResponse = NoResponse


\* the positions in shutdownCalls of the calls named in the set calls
ShutdownPositions(calls) ==
  { i \in DOMAIN shutdownCalls : shutdownCalls[i] \in calls }

\* C11: on shutdown every client's disconnect() is called before the
\* Ember+ provider and the TSL sender are stopped, and both outputs are
\* stopped before the WebSocket server is closed.
C11_ShutdownOrder ==
  /\ \A i \in ShutdownPositions({"client.disconnect"}) :
       \A j \in ShutdownPositions({"emberProvider.stop", "tslSender.stop"}) : i < j
  /\ \A j \in ShutdownPositions({"emberProvider.stop", "tslSender.stop"}) :
       \A k \in ShutdownPositions({"wss.close"}) : j < k


\* C12: tick latency never accumulates in the WebSocket broadcast loop,
\* the vMix poll loop or the TSL refresh loop: with per-tick latency at
\* most L < T, the k-th tick of a loop fires no later than k periods plus L
\* after the loop was started.
C12_NoAccumulatedLatency ==
  schedFires >= 1 =>
    schedLastFire <= schedStart + schedFires * SchedPeriod + MaxLatency


\* C13: two CasparCG clients with the same source IP do not overwrite each
\* other on the shared listener: every client whose connect() has been called
\* and whose disconnect() has not since is the registry's entry that packets
\* from its IP are routed to, whatever the other client has done.
C13_SameIpClientsBothRegistered ==
  \A id \in oscWanted : OscLookup(oscRegistry, OscClientIp(id)) = id

\* C14: a message or bundle from a source IP with no entry in the registry
\* is dropped: no client's cache, connection flags or last-update time
\* change, nothing is emitted and the registry stays as it was; the registry
\* changes in no step that handles a datagram.
C14_UnknownSourceDropped ==
  [][ /\ (oscLastSource' # "" /\ oscRegistry[oscLastSource'] = NoClient)
           => /\ oscClients' = oscClients
              /\ oscEmitted' = <<>>
              /\ oscRegistry' = oscRegistry
      /\ oscRegistry' # oscRegistry => oscLastSource' = "" ]_vars

\* a datagram from an unknown source was dropped while a client was connected
C14_Witness ==
  /\ oscLastSource = "10.0.0.99"
  /\ oscRegistry["10.0.0.10"] # NoClient
  /\ \E id \in OscClientIds : oscClients[id].isConnected

\* C15: every state event a HyperDeck client or a CasparCG client emits
\* differs in state, timecode or filename from the state event the same
\* client emitted immediately before it, also when the client disconnected
\* and reconnected in between.
C15_NoRepeatedStateEvent ==
  /\ \A i \in 1..(Len(hdpEvents) - 1) : hdpEvents[i] # hdpEvents[i + 1]
  /\ \A id \in OscClientIds :
       Len(oscStateLog[id]) = 2 => oscStateLog[id][1].state # oscStateLog[id][2].state

\* a CasparCG client that has emitted two state events was disconnected and
\* connected again, and the datagram it then received made it emit
\* 'connected' and no state event
C15_Witness ==
  \E id \in OscClientIds :
    /\ Len(oscStateLog[id]) = 2
    /\ oscLastSource = OscClientIp(id)
    /\ oscEmitted = <<[client |-> id, type |-> "connected"]>>
    /\ oscClients[id].lastEmittedState = OscStateKey(BuildNormalisedState(oscClients[id]))

\* a HyperDeck client has emitted two state events for the three transport
\* infos of a script whose third repeats the first
C15_WitnessHyperDeck ==
  /\ hdpPos = Len(hdpScript)
  /\ Len(hdpEvents) = 2
  /\ \E st \in StatusValues, st2 \in StatusValues, tc \in TimecodeLines :
       hdpScript = TransportBlock(STATUS_TRANSPORT_INFO, st, tc, <<>>)
                     \o TransportBlock(STATUS_ASYNC_TRANSPORT, st2, tc, <<>>)
                     \o TransportBlock(STATUS_TRANSPORT_INFO, st, tc, <<>>)

\* the parameter index the claim gives for a state string
C16_StateIndex(s) ==
  CASE s = "stop" -> 0 [] s = "play" -> 1 [] s = "rec" -> 2 [] OTHER -> 3

\* the value the claim expects updateDevice to compare and push for a field
C16_Value(field, val) ==
  IF field = "state" THEN C16_StateIndex(val[field]) ELSE val[field]

\* the fields for which the claim expects updateDevice(id, partial) to push
C16_Expected(ep, call) ==
  IF call.op # "updateDevice" \/ ~ep.isRunning \/ call.id \notin DOMAIN ep.tree THEN {}
  ELSE { f \in call.partial.fields : ep.tree[call.id][f] # C16_Value(f, call.partial.val) }

C16_PushesOf(pushed, f) == SelectSeq(pushed, LAMBDA p : p.field = f)

\* C16: updateDevice(id, partial) on a running provider pushes one update
\* for exactly the fields that are present and whose value (state strings
\* mapped stop 0, play 1, rec 2, offline 3, any other string 3) differs from
\* the tree's; the same call repeated would push nothing; for an unknown id
\* or a provider that is not running it pushes nothing.
C16_PushExactlyWhenChanged ==
  [][ emberLastCall'.op = "updateDevice" =>
        /\ \A f \in {"state", "timecode", "filename", "connected"} :
             IF f \in C16_Expected(emberProvider, emberLastCall')
             THEN C16_PushesOf(emberPushed', f)
                    = <<[device |-> emberLastCall'.id, field |-> f,
                         value |-> C16_Value(f, emberLastCall'.partial.val)]>>
             ELSE C16_PushesOf(emberPushed', f) = <<>>
        /\ C16_Expected(emberProvider', emberLastCall') = {} ]_vars

\* the EmberServer instances that are open or opening
EmberLiveServers ==
  { i \in DOMAIN emberServers : emberServers[i] \in {"initialising", "listening"} }

\* C17: start() on a running TSL sender or Ember+ provider and stop() on one
\* that is not running change nothing; a running sender has exactly one open
\* socket and one pending refresh timer and a stopped one has none; a
\* running provider whose start() calls did not overlap has exactly one
\* server, the one created last, also after start, stop, start.
C17_StartStopIdempotent ==
  [][ /\ (tslSender'.isRunning => TslStart(tslSender') = tslSender')
      /\ (~tslSender'.isRunning => TslStop(tslSender') = tslSender')
      /\ (tslSender'.isRunning => tslSender'.sockets = 1 /\ tslSender'.timers = 1)
      /\ (~tslSender'.isRunning => tslSender'.sockets = 0 /\ tslSender'.timers = 0)
      /\ (emberLastCall'.op = "start" /\ emberProvider.isRunning)
           => UNCHANGED <<emberProvider, emberServers>>
      /\ (emberLastCall'.op = "stop" /\ ~emberProvider.isRunning)
           => UNCHANGED <<emberProvider, emberServers>>
      /\ (emberProvider'.isRunning /\ ~emberOverlap')
           => EmberLiveServers' = {Len(emberServers')} ]_vars

\* the provider was started, stopped and started again, is running on its
\* second server, and start() has just been called once more
C17_Witness ==
  /\ emberLastCall.op = "start"
  /\ emberProvider.isRunning
  /\ emberServers = <<"discarded", "listening">>

\* C18: no input from a consumer changes system state: a setValue request is
\* rejected and leaves the provider and its tree as they were; a WebSocket
\* client message of any kind leaves the device store, the configuration
\* and the set of connected sockets as they were, and the only message sent
\* in answer is the config reply to a getConfig, to the requesting socket.
C18_ConsumersCannotWrite ==
  [][ /\ emberLastCall'.op = "setValue"
           => (emberProvider' = emberProvider /\ emberReply' = "rejected")
      /\ wsLastMessage'.kind # "none"
           => /\ deviceStates' = deviceStates
              /\ wsConfig' = wsConfig
              /\ connectedClients' = connectedClients
              /\ wsSockets' = wsSockets
              /\ wsSent' # <<>> =>
                    /\ wsLastMessage'.kind = "getConfig"
                    /\ wsSent' = <<[to |-> wsLastMessage'.socket, type |-> "config"]>> ]_vars

\* a setValue request on a running provider's parameter has been rejected
C18_Witness ==
  /\ emberLastCall.op = "setValue"
  /\ emberReply = "rejected"
  /\ emberProvider.isRunning

\* a getConfig was answered while another socket was connected
C18_WitnessGetConfig ==
  /\ wsLastMessage = [kind |-> "getConfig", socket |-> 1]
  /\ wsSent = <<[to |-> 1, type |-> "config"]>>
  /\ connectedClients = {1, 2}

\* the UTF-8 encoding of a name, written out byte by byte
C19_NameBytes(name) ==
  CASE name = <<67, 65, 77, 32, 49>> -> <<67, 65, 77, 32, 49>>
    [] name = <<>> -> <<>>
    [] name = <<220, 49>> -> <<195, 156, 49>>
    [] name = <<8364>> -> <<226, 130, 172>>
    [] name = <<128249>> -> <<240, 159, 147, 185>>

\* the low byte of CONTROL for a state
C19_Control(state) ==
  CASE state = "play" -> 197 [] state = "rec" -> 207 [] state = "stop" -> 192
    [] OTHER -> 64

\* the two bytes of a 16-bit little-endian field
C19_Field(v) == <<v % 256, v \div 256>>

\* C19: the packet built for a screen, device id, name and state is PBC =
\* 12 + UTF-8 length of the name, VER 0x80, FLAGS 0, SCREEN, INDEX = device
\* id, CONTROL low byte 0xC5 play, 0xCF rec, 0xC0 stop, 0x40 offline or
\* unknown and high byte 0, LENGTH, TEXT; screen 0, id 3, 'CAM 1', play
\* gives 11 00 80 00 00 00 03 00 C5 00 05 00 43 41 4D 20 31.
C19_PacketBytesExact ==
  pktOut.done /\ pktOut.bytes # <<>> =>
    /\ pktOut.bytes =
         C19_Field(12 + Len(C19_NameBytes(pktIn.name))) \o <<128, 0>>
           \o C19_Field(pktIn.screen) \o C19_Field(pktIn.id)
           \o <<C19_Control(pktIn.state), 0>>
           \o C19_Field(Len(C19_NameBytes(pktIn.name)))
           \o C19_NameBytes(pktIn.name)
    /\ pktIn = [screen |-> 0, id |-> 3, name |-> <<67, 65, 77, 32, 49>>, state |-> "play"]
         => pktOut.bytes = <<17, 0, 128, 0, 0, 0, 3, 0, 197, 0, 5, 0, 67, 65, 77, 32, 49>>

\* the packet of the example has been built
C19_Witness ==
  /\ pktIn = [screen |-> 0, id |-> 3, name |-> <<67, 65, 77, 32, 49>>, state |-> "play"]
  /\ pktOut.done
  /\ Len(pktOut.bytes) = 17

----------------------------------------------------------------------------
(* Claims about the TSL sender's updateDevice.                             *)

\* the tracked entries of the sender for one id
C20_Entries(ts, id) == { ts.deviceStates[i] : i \in TslTracked(ts, id) }

\* the entry updateDevice builds from the call: the name and the state with
\* their defaults filled in
C20_Current == [id |-> tslLastCall'.id, name |-> tslLastCall'.name, state |-> tslLastCall'.state]

\* the device was not tracked before the call, or its tracked name or state
\* differs from the call's
C20_Differs ==
  \/ C20_Entries(tslSender, tslLastCall'.id) = {}
  \/ \E e \in C20_Entries(tslSender, tslLastCall'.id) :
       e.name # tslLastCall'.name \/ e.state # tslLastCall'.state

\* the packet of the call's device: its index, its text and its tally
C20_IsPacketOfCall(p) ==
  /\ p.index = tslLastCall'.id % 65536
  /\ p.text = tslLastCall'.name
  /\ p.control = buildV50Packet(0, 0, [text |-> ""] @@ stateToTally(tslLastCall'.state)).control

C20_UpdateStep ==
  tslLastCall'.op = "updateDevice" =>
    /\ tslSender.isRunning =>
          IF C20_Differs
          THEN /\ Len(tslSent') = Len(TslDestinations)
               /\ \A k \in 1..Len(TslDestinations) :
                    /\ tslSent'[k].dest = TslDestinations[k]
                    /\ C20_IsPacketOfCall(tslSent'[k].packet)
          ELSE tslSent' = <<>>
    /\ C20_Entries(tslSender', tslLastCall'.id) = {C20_Current}

C20_CountStep ==
  /\ TslDeviceCount(tslSender') = Cardinality(tslLive')
  /\ \A id \in TslIds : (TslTracked(tslSender', id) # {}) <=> (id \in tslLive')

\* C20: while the sender is running, updateDevice(id, {name, state}) hands
\* exactly one packet of that device to socket.send per configured
\* destination when the id was not tracked or its name or state (defaults
\* filled in) differs from the tracked entry, and none otherwise; either way
\* the tracked entry becomes the call's; and after every step, running or
\* not, deviceCount is the number of distinct ids updated and not removed
\* since.
C20_UpdateDeviceSendsOnChange == [][C20_UpdateStep /\ C20_CountStep]_vars

\* a running sender tracking a device was just given the same name and
\* state again and sent nothing, with a second device tracked
C20_WitnessUnchanged ==
  /\ tslLastCall.op = "updateDevice"
  /\ tslSender.isRunning
  /\ tslSent = <<>>
  /\ TslDeviceCount(tslSender) = 2

\* a running sender was just given a device whose name defaults to
\* "Device 1" and handed its packet to both destinations; it is the one
\* device tracked
C20_Witness ==
  /\ tslLastCall.op = "updateDevice"
  /\ tslSender.isRunning
  /\ Len(tslSent) = 2
  /\ tslSent[1].packet.text = "Device 1"
  /\ tslSent[1].dest # tslSent[2].dest
  /\ TslDeviceCount(tslSender) = 1
  /\ tslLive = {1}

----------------------------------------------------------------------------
(* Claims about the TSL sender's refresh cycle.                            *)

\* a refresh tick of a running sender with at least one tracked device
\* hands the packet of exactly one device, the round-robin target, to
\* every destination
C21_TickSendsOneDevice ==
  [][(tslLastCall'.op = "refresh" /\ tslSender.isRunning /\ TslDeviceCount(tslSender) >= 1) =>
       /\ TslTracked(tslSender, tslLastCall'.id) # {}
       /\ Len(tslSent') = Len(TslDestinations)
       /\ \A k \in 1..Len(tslSent') : tslSent'[k].packet.index = tslLastCall'.id]_vars

\* C21: no tracked device is starved by the refresh cycle: a device that
\* stays tracked by a sender that stays running, while other devices are
\* added and removed between ticks, is the target of a refresh tick again
\* and again.
C21_NoDeviceStarved ==
  \A id \in TslRefreshIds :
    <>[](tslSender.isRunning /\ TslTracked(tslSender, id) # {})
      => []<>(tslLastCall.op = "refresh" /\ tslLastCall.id = id)

----------------------------------------------------------------------------
(* Claims about framesToTimecode.                                          *)

\* the string is four two-digit fields: it is the template filled with
\* fields that pad2 renders as two digits each
C22_WellFormed(str, totalFrames, fps) ==
  LET t == TimecodeFields(totalFrames, fps)
  IN /\ str = FormatTimecode(t)
     /\ \A f \in {"hours", "minutes", "seconds", "frames"} : t[f] \in 0..99
     /\ Len(str) = 11

\* C22: framesToTimecode is total: for every integer frame count and every
\* supported framerate both converters return HH:MM:SS:FF or HH:MM:SS;FF
\* with four two-digit fields, and a negative frame count gives the result
\* of 0.
C22_TimecodeTotal ==
  tcOut.done =>
    /\ C22_WellFormed(tcOut.server, tcIn.totalFrames, tcIn.fps)
    /\ C22_WellFormed(tcOut.casparcg,
                      IF tcIn.totalFrames < 0 THEN 0 ELSE tcIn.totalFrames, tcIn.fps)
    /\ tcIn.totalFrames < 0 =>
          /\ tcOut.server = framesToTimecode(0, tcIn.fps)
          /\ tcOut.casparcg = framesToTimecode(0, tcIn.fps)

\* the string a sequence of characters spells
RECURSIVE C23_Join(_)
C23_Join(chars) == IF chars = <<>> THEN "" ELSE Head(chars) \o C23_Join(Tail(chars))

C23_Digit(ch) == CHOOSE d \in 0..9 : ToString(d) = ch

\* the two-digit number at positions i and i + 1
C23_Field(chars, i) == C23_Digit(chars[i]) * 10 + C23_Digit(chars[i + 1])

\* ((HH*60 + MM)*60 + SS)*fps + FF of the timecode the characters spell
C23_Parse(chars, fps) ==
  ((C23_Field(chars, 1) * 60 + C23_Field(chars, 4)) * 60 + C23_Field(chars, 7)) * fps
    + C23_Field(chars, 10)

C23_InRange ==
  /\ tcOut.done
  /\ ~requiresDropFrame(tcIn.fps)
  /\ tcIn.totalFrames >= 0
  /\ tcIn.totalFrames < 24 * 3600 * RoundFps(tcIn.fps, 1)

\* C23: for a non-drop framerate and a frame count f of the first 24
\* hours, reading the returned string back as ((HH*60 + MM)*60 + SS)*fps
\* + FF gives f, for both converters.
C23_RoundTrip ==
  C23_InRange =>
    LET chars == TimecodeChars(TimecodeFields(tcIn.totalFrames, tcIn.fps))
    IN /\ C23_Join(chars) = tcOut.server
       /\ tcOut.casparcg = tcOut.server
       /\ Len(chars) = 11
       /\ \A i \in {1, 2, 4, 5, 7, 8, 10, 11} : chars[i] \in {ToString(d) : d \in 0..9}
       /\ C23_Parse(chars, RoundFps(tcIn.fps, 1)) = tcIn.totalFrames

\* the last frame of the day at 60 frames a second was converted
C23_Witness ==
  /\ C23_InRange
  /\ tcIn.fps = 6000
  /\ tcIn.totalFrames = 24 * 3600 * 60 - 1
  /\ tcOut.server = "23:59:59:59"

----------------------------------------------------------------------------
(* Claims about the order and the timestamps of applied events.            *)

\* C24: for every device, each applied client event (state, connected,
\* disconnected) writes an updated timestamp that is at least the one the
\* previous event of that device wrote, and an event is applied in the
\* step that emits it: an entry that changes carries the current reading
\* of the monotonic clock, and no entry is ahead of the clock.
C24_UpdatedMonotonic ==
  [][\A d \in Servers :
       /\ deviceStates'[d].updated >= deviceStates[d].updated
       /\ deviceStates'[d] # deviceStates[d] => deviceStates'[d].updated = clock'
       /\ deviceStates'[d].updated <= clock']_vars

\* a device that played a clip was disconnected at a later time: its entry
\* keeps the clip and carries the later timestamp
C24_Witness ==
  \E d \in Servers :
    /\ deviceStates[d].filename = "clip.mov"
    /\ deviceStates[d].state = "offline"
    /\ ~deviceStates[d].connected
    /\ deviceStates[d].updated = clock
    /\ clock >= 2

----------------------------------------------------------------------------
(* Claims about the vMix normalisation.                                    *)

\* the non-drop conversion of floor(duration * framerate / 1000) frames at
\* the rounded framerate; a duration that is not positive counts as none
C25_Timecode(duration, framerate) ==
  LET frames == IF duration <= 0 THEN 0 ELSE (duration * framerate) \div 100000
  IN FormatTimecode(TimecodeFields(frames, RoundFps(framerate, 1) * 100))

C25_Expected(raw, framerate) ==
  [ state |-> CASE raw.recording -> "rec"
                [] ~raw.recording /\ raw.activeInputState = "Running" -> "play"
                [] OTHER -> "stop",
    filename |-> CASE raw.recording ->
                        (IF raw.activeInputTitle \in {"null", ""} THEN "Recording"
                         ELSE raw.activeInputTitle)
                   [] ~raw.recording /\ raw.activeInputState \in {"Running", "Paused"} ->
                        raw.activeInputTitle
                   [] OTHER -> "",
    timecode |-> C25_Timecode(raw.duration, framerate) ]

C25_Example ==
  [ root |-> TRUE, recording |-> VmixText("True"), duration |-> VmixNumber(60000),
    inputs |-> <<[state |-> VmixText("Running"), title |-> VmixText("News")]>> ]

C25_WitnessRecordingPaused ==
  /\ fnIn.fn = "vmix" /\ fnOut.done /\ ~fnOut.threw
  /\ fnOut.rawState.recording
  /\ fnOut.rawState.activeInputState = "Paused"
  /\ Len(fnIn.xml.inputs) = 2
  /\ fnIn.xml.inputs[2].state.text = "Running"

----------------------------------------------------------------------------
(* Claims about the WebSocket fan-out.                                     *)

\* the sockets that have connected and not yet closed, errored or failed a
\* send
C27_LiveSockets == { s \in WsSocketIds : wsSockets[s] # "none" } \ wsGone

\* a newly connected socket whose send did not fail is sent one snapshot,
\* and a broadcast sends one and the same message to the open sockets of
\* the set, less those the tick removes for a failed send, and to no
\* other socket
C27_Sends ==
  /\ wsLastOp' = "connection" =>
        \A s \in WsSocketIds :
          (wsSockets[s] = "none" /\ wsSockets'[s] = "open" /\ s \notin wsGone') =>
             /\ Len(wsSent') = 1
             /\ wsSent'[1].to = s
             /\ wsSent'[1].type = "playoutStates"
  /\ wsLastOp' = "broadcast" =>
        /\ { wsSent'[k].to : k \in 1..Len(wsSent') }
             = { s \in connectedClients' : wsSockets[s] = "open" }
        /\ Len(wsSent') = Cardinality({ wsSent'[k].to : k \in 1..Len(wsSent') })
        /\ \A k \in 1..Len(wsSent') :
             /\ wsSent'[k].type = "playoutStates"
             /\ wsSent'[k].message = wsSent'[1].message
             /\ wsSent'[k].message.data = deviceStates

\* C27: the WebSocket client set holds exactly the sockets that have
\* connected and not yet closed, errored or failed a send; a newly
\* connected socket is sent one playoutStates snapshot at once; a broadcast
\* tick serialises the store once and sends that message to every open
\* socket of the set and to no other.
C27_ClientSetExact ==
  [][(connectedClients' = C27_LiveSockets') /\ C27_Sends]_vars

\* the sending clauses on their own
C27_SendsOnly == [][C27_Sends]_vars

----------------------------------------------------------------------------
(* Claims about a protocol output that cannot open its socket.             *)

\* C26: when the socket of a protocol output cannot open, that output ends
\* up reported as not running and the rest keeps working: the process does
\* not terminate, so client events still reach the store and the update
\* loop still broadcasts.
C26_FailedOutputDisabled ==
  /\ boot # "crashed"
  /\ tslSender.socket = "failed" => ~GetProtocolStatus.tslUmd.running
  /\ (boot = "up" /\ ~emberProvider.created) => ~GetProtocolStatus.emberPlus.running

\* the Ember+ half: after a failed emberProvider.start the provider is
\* reported as not running while the listen callback has gone on to start
\* the TSL sender and the update loop
C26_EmberFailureContained ==
  (boot = "up" /\ ~emberProvider.created) =>
     /\ ~GetProtocolStatus.emberPlus.running
     /\ tslSender.isRunning

----------------------------------------------------------------------------
(* Claims about the state events of failed vMix polls.                     *)

\* C28: a failed vMix poll re-emits the cached last good state exactly when
\* the client is connected at that moment and the failure is the 1st or 2nd
\* in a row; a client that is not connected (never connected, dropped by
\* the threshold, or stopped with disconnect() and started again with
\* connect()) emits no 'state' on a failed poll.
C28_CachedStateOnlyWhileConnected ==
  [][ VmixPollFails =>
        ( VmixEmittedCount("state")' = 1
            <=> ( vmix.isConnected
                  /\ vmix'.consecutiveFailures < maxConsecutiveFailures ) )
    ]_vars

\* the part of C28 about connected clients: the 1st and 2nd failure in a
\* row of a connected client re-emit the cached state once, the 3rd none
C28_ConnectedReemits ==
  [][ (VmixPollFails /\ vmix.isConnected) =>
        VmixEmittedCount("state")' =
          (IF vmix'.consecutiveFailures < maxConsecutiveFailures
           THEN 1 ELSE 0)
    ]_vars

----------------------------------------------------------------------------
(* Claims about the shared listener's life cycle.                          *)

\* the clients SharedListener.clients holds have been told 'ready' and have
\* one interval each while the listener runs
C29_RegistryClientsNotified ==
  slListener.isRunning =>
    \A c \in SlRegistered(slRegistry) :
      c \in slNotified /\ slTimers[c].running = 1

\* at most one UDP socket is open, and the two flags are never both set
C29_OneSocketOneFlag ==
  /\ Cardinality({ s \in DOMAIN slSockets : slSockets[s] = "open" }) <= 1
  /\ ~(slListener.isRunning /\ slListener.isStarting)

\* C29: whatever the interleaving of register calls with the socket's
\* 'ready' and 'error' events, at most one UDP socket is open, isRunning
\* and isStarting are never both true, and every client that has
\* registered (connect() without a later disconnect()) has, while the
\* listener is running, been told 'ready' and has exactly one stale-check
\* interval running.
C29_EveryRegisteredClientReady ==
  /\ C29_OneSocketOneFlag
  /\ slListener.isRunning =>
       \A c \in slWanted : c \in slNotified /\ slTimers[c].running = 1

\* C30: when an unregistration leaves the registry empty, with the listener
\* running or still starting, the UDP socket is closed and isRunning and
\* isStarting are false afterwards; no socket is open or opening while the
\* registry is empty.
C30_EmptyRegistryClosesSocket ==
  /\ [][ \A c \in SlClientIds :
           ( SlCallDisconnect(c) /\ SlRegistered(slRegistry') = {}
             /\ (slListener.isRunning \/ slListener.isStarting) )
           => ( /\ SlLiveSockets(slSockets') = {}
                /\ ~slListener'.isRunning
                /\ ~slListener'.isStarting )
       ]_vars
  /\ [](SlRegistered(slRegistry) = {} => SlLiveSockets(slSockets) = {})

\* the running case of C30: emptying the registry of a running listener
\* closes its socket and clears both flags
C30_RunningListenerStops ==
  [][ \A c \in SlClientIds :
        ( SlCallDisconnect(c) /\ SlRegistered(slRegistry') = {}
          /\ slListener.isRunning )
        => ( /\ SlLiveSockets(slSockets') = {}
             /\ ~slListener'.isRunning
             /\ ~slListener'.isStarting )
    ]_vars

----------------------------------------------------------------------------
(* Claims about the atomicity of the aggregator's listeners.               *)

\* the statements of the listener of event ev of device d, as logged
C31_LogOf(d, ev) ==
  [ i \in DOMAIN EvStatements(ev) |-> [d |-> d, stmt |-> EvStatements(ev)[i]] ]

\* the log is the beginning of one listener's statements
C31_IsPrefix(log, full) ==
  /\ Len(log) <= Len(full)
  /\ \A i \in DOMAIN log : log[i] = full[i]

\* C31: the store mutation of a device event and its Ember+ and TSL
\* updates run as one uninterrupted step, in that order: between the store
\* mutation and the side effects no broadcast tick, no snapshot for a new
\* socket and no other device event runs, and when the listener returns
\* the store, the Ember+ tree and the TSL sender are what the three
\* updates applied in that order make of them.
C31_HandlerAtomic ==
  /\ evPending = {}
  /\ evLog # <<>> =>
       /\ C31_IsPrefix(evLog, C31_LogOf(evStart.d, evStart.ev))
       /\ EvLoopFree =>
            LET w == HandleEvent(evStart.w, evStart.d, evStart.ev)
            IN /\ evLog = C31_LogOf(evStart.d, evStart.ev)
               /\ deviceStates = w.store
               /\ emberProvider = w.ember
               /\ tslSender = w.tsl
               /\ tslSent = w.sent

\* a state listener has returned with the provider and the sender running
\* and a dashboard connected: all three updates are in place
C31_Witness ==
  /\ EvLoopFree
  /\ Len(evLog) = 3
  /\ evStart.ev.type = "state"
  /\ evStart.ev.state.state = "play"
  /\ evStart.w.store[evStart.d].state # "play"
  /\ connectedClients # {}
  /\ emberProvider.isRunning
  /\ TslTracked(tslSender, evStart.d) # {}

----------------------------------------------------------------------------
(* Claims about the vMix client after disconnect() and about its poll      *)
(* chain.                                                                  *)

\* a stopped client starts no request and arms no timer
C32_NoFurtherPoll ==
  [][ (~vmix.isRunning /\ ~vmix'.isRunning) =>
        /\ vmix'.pollTimer # "pending"
        /\ vmixOtherTimers' <= vmixOtherTimers
        /\ vmixInFlight' <= vmixInFlight
    ]_vars

\* C32: once disconnect() has returned, and until connect() is called
\* again, the vMix client emits no 'connected' and no 'state' event and
\* schedules no poll, also when a request was in flight at the time of the
\* call.
C32_SilentAfterDisconnect ==
  [][ (~vmix.isRunning /\ ~vmix'.isRunning) =>
        /\ VmixEmittedCount("connected")' = 0
        /\ VmixEmittedCount("state")' = 0
        /\ vmix'.pollTimer # "pending"
        /\ vmixOtherTimers' <= vmixOtherTimers
        /\ vmixInFlight' <= vmixInFlight
    ]_vars

\* the poll chains of the client: pending poll timers and requests in
\* flight
C33_Chains ==
  (IF vmix.pollTimer = "pending" THEN 1 ELSE 0) + vmixOtherTimers + vmixInFlight

\* a poll that completes while the client is running arms exactly one timer
C33_CompletedPollSchedulesOne ==
  [][ ( vmix.isRunning
        /\ (VmixPollFails \/ \E state \in VmixPolledStates : VmixPollSucceeds(state)) )
      => C33_Chains' = C33_Chains
    ]_vars

\* C33: while the vMix client runs, every completed poll, successful or
\* not, is followed by exactly one scheduled poll, and whatever the
\* interleaving of connect(), disconnect() and poll completions the client
\* never has more than one pending poll timer or request in flight.
C33_SinglePollChain ==
  /\ [](C33_Chains <= 1)
  /\ C33_CompletedPollSchedulesOne

\* C34: a running vMix client starts one poll per period T: of the polls
\* started in the first k periods since connect() there are k, give or take
\* one, whatever the timer jitter and however long each request takes, up
\* to its timeout.  Told by the poll count: the n-th poll starts no later
\* than n + 1 periods and no earlier than n - 2 periods after connect().
C34_OnePollPerPeriod ==
  schedFires >= 1 =>
    /\ schedLastFire <= schedStart + (schedFires + 1) * SchedPeriod
    /\ schedLastFire >= schedStart + (schedFires - 2) * SchedPeriod

\* the lower half of C34: polls never come faster than one per period
C34_NeverTooFast ==
  schedFires >= 1 =>
    schedLastFire >= schedStart + (schedFires - 2) * SchedPeriod

----------------------------------------------------------------------------
(* Claims about a CasparCG client after a stale period.                    *)

\* the events of the last step of the CasparCG client
C35_Emitted(e) == \E i \in DOMAIN casparEmitted : casparEmitted[i] = e

\* 'connected' and 'disconnected' alternate: each is emitted only in the
\* other's state and flips isConnected, and isConnected changes in no other
\* way
C35_EventsAlternate ==
  [][ /\ C35_Emitted("connected")' => (~caspar.isConnected /\ caspar'.isConnected)
      /\ C35_Emitted("disconnected")' => (caspar.isConnected /\ ~caspar'.isConnected)
      /\ caspar'.isConnected # caspar.isConnected =>
           (C35_Emitted("connected")' \/ C35_Emitted("disconnected")')
    ]_vars

\* C35: once the stale checker has marked a CasparCG client disconnected,
\* the next OSC message from its source makes it connected again, with one
\* 'connected' event, so that a later silence is detected again; the
\* client's 'connected' and 'disconnected' events strictly alternate.
C35_MessageReconnects ==
  /\ [][ CasparOscMessage =>
           /\ caspar'.isConnected
           /\ ~caspar.isConnected => casparEmitted' = <<"connected">>
       ]_vars
  /\ C35_EventsAlternate

----------------------------------------------------------------------------
(* Claims about the protocol outputs mirroring the store.                  *)

\* the enumeration index of a state of the store
C36_Index(st) ==
  CASE st = "stop" -> 0 [] st = "play" -> 1 [] st = "rec" -> 2 [] OTHER -> 3

\* C36: while the Ember+ provider is running, with every device event
\* handled, the State, Timecode, Filename and Connected parameters of each
\* device equal the state, timecode, filename and connected fields of the
\* device in the store, from the start of the provider on (a device that
\* never connected reads offline and false) and also for devices whose
\* events came while the provider was starting.
C36_TreeMirrorsStore ==
  emberProvider.isRunning =>
    \A d \in Servers :
      /\ emberProvider.tree[d].state = C36_Index(deviceStates[d].state)
      /\ emberProvider.tree[d].timecode = deviceStates[d].timecode
      /\ emberProvider.tree[d].filename = deviceStates[d].filename
      /\ emberProvider.tree[d].connected = deviceStates[d].connected

\* the part of C36 that holds: a device whose last event was handled by the
\* running provider has that event's fields in the tree
C36_HandledEventMirrored ==
  [][ \A d \in Servers :
        ( emberProvider.isRunning /\ emberProvider'.isRunning
          /\ (OnState(d) \/ OnDisconnected(d)) )
        => /\ emberProvider'.tree[d].state = C36_Index(deviceStates'[d].state)
           /\ emberProvider'.tree[d].connected = deviceStates'[d].connected
    ]_vars

\* the states the TSL sender tracks for device d
C37_TrackedStates(d) ==
  { tslSender.deviceStates[i].state : i \in TslTracked(tslSender, d) }

\* C37: while the TSL sender is running, with every device event handled,
\* the state it tracks and refreshes for each device is the device's state
\* in the store, however the client events interleave with the startup of
\* the server; the registration of the initial 'offline' entries never
\* replaces a state that a client has reported.
C37_TslMirrorsStore ==
  (tslSender.created /\ tslSender.isRunning) =>
    \A d \in Servers : C37_TrackedStates(d) = {deviceStates[d].state}

\* the part of C37 that holds: an event handled by the running sender
\* leaves the device's state of the store in the sender
C37_HandledEventMirrored ==
  [][ \A d \in Servers :
        ( tslSender.created /\ tslSender.isRunning /\ tslSender'.isRunning
          /\ (OnState(d) \/ OnDisconnected(d)) )
        => C37_TrackedStates(d)' = {deviceStates'[d].state}
    ]_vars

----------------------------------------------------------------------------
(* HyperDeck client (hyperdeck-client.js): the byte stream.  _handleData   *)
(* appends each chunk to this.buffer, splits the buffer at /\r?\n/, keeps  *)
(* the last piece and hands the others to _processLine, whose regular      *)
(* expressions are evaluated here on the characters of the line.  A byte   *)
(* is "CR", "LF", " ", ":", a digit or another character; a word that no   *)
(* pattern looks inside ("status", "play", "clip.mov") stands for its      *)
(* letters as one element.                                                 *)

MaxChunk == 3

DigitSeq == <<"0", "1", "2", "3", "4", "5", "6", "7", "8", "9">>

DigitChar(n) == DigitSeq[n + 1]

DigitValue(c) == CHOOSE n \in 0..9 : DigitSeq[n + 1] = c

\* \s among the bytes of the model
Whitespace == {" ", "CR"}

HdFieldNames ==
  {"status", "display timecode", "timecode", "active slot", "slot id", "clip name"}

\* the device's side: the bytes of a field name
HdNameBytes(name) ==
  CASE name = "status" -> <<"status">>
    [] name = "display timecode" -> <<"display", " ", "timecode">>
    [] name = "timecode" -> <<"timecode">>
    [] name = "active slot" -> <<"active", " ", "slot">>
    [] name = "slot id" -> <<"slot", " ", "id">>
    [] name = "clip name" -> <<"clip", " ", "name">>
    [] OTHER -> <<name>>

\* the device's side: the bytes of one line, without its line ending
HdLineBytes(line) ==
  CASE line.kind = "code" ->
         << DigitChar(line.code \div 100), DigitChar((line.code \div 10) % 10),
            DigitChar(line.code % 10), " ", "text" >>
    [] line.kind = "field" -> HdNameBytes(line.name) \o <<":", " ">> \o line.value
    [] OTHER -> <<>>

HdLineEndings == { <<"LF">>, <<"CR", "LF">> }

RECURSIVE HdStreamBytes(_, _)
\* the device's side: the bytes of a sequence of lines
HdStreamBytes(lines, eol) ==
  IF lines = <<>> THEN <<>>
  ELSE HdLineBytes(Head(lines)) \o eol \o HdStreamBytes(Tail(lines), eol)

RECURSIVE TrimStart(_)
TrimStart(cs) ==
  IF cs # <<>> /\ Head(cs) \in Whitespace THEN TrimStart(Tail(cs)) ELSE cs

RECURSIVE TrimEnd(_)
TrimEnd(cs) ==
  IF cs # <<>> /\ cs[Len(cs)] \in Whitespace THEN TrimEnd(SubSeq(cs, 1, Len(cs) - 1)) ELSE cs

\* String.prototype.trim
Trim(cs) == TrimEnd(TrimStart(cs))

\* key.trim().toLowerCase() of a field line, as the name the handlers know
HdNameOf(cs) ==
  IF \E n \in HdFieldNames : HdNameBytes(n) = cs
  THEN CHOOSE n \in HdFieldNames : HdNameBytes(n) = cs
  ELSE "other"

OtherLine == [kind |-> "other", code |-> 0, name |-> "", value |-> <<>>]

\* what the patterns of _processLine make of a line: /^(\d{3})\s*(.*)/,
\* line.trim() === '' and /^([^:]+):\s*(.*)$/ (where . matches no CR)
HdMatchLine(cs) ==
  IF Len(cs) >= 3 /\ \A i \in 1..3 : cs[i] \in DigitChars
  THEN CodeLine(100 * DigitValue(cs[1]) + 10 * DigitValue(cs[2]) + DigitValue(cs[3]))
  ELSE IF Trim(cs) = <<>> THEN BlankLine
  ELSE IF \E i \in 2..Len(cs) : cs[i] = ":"
       THEN LET c == CHOOSE i \in 1..Len(cs) :
                       cs[i] = ":" /\ \A j \in 1..(i - 1) : cs[j] # ":"
                tail == TrimStart(SubSeq(cs, c + 1, Len(cs)))
            IN IF c = 1 \/ \E i \in DOMAIN tail : tail[i] = "CR"
               THEN OtherLine
               ELSE FieldLine(HdNameOf(Trim(SubSeq(cs, 1, c - 1))), Trim(tail))
  ELSE OtherLine

\* this.buffer = lines.pop() || '' with nothing kept
HdDropIncomplete(pieces) == <<>>

\* this.buffer = lines.pop() || ''
HdKeepIncomplete(pieces) == pieces[Len(pieces)]

\* buffer.split(/\r?\n/): the pieces between the line endings, the piece
\* after the last line ending included; a CR right before an LF belongs
\* to the line ending
HdSplit(buf) ==
  LET lfs == { i \in 1..Len(buf) : buf[i] = "LF" }
      n == Cardinality(lfs)
      nth(k) == CHOOSE i \in lfs : Cardinality({ j \in lfs : j <= i }) = k
      from(k) == IF k = 1 THEN 1 ELSE nth(k - 1) + 1
      to(k) == IF k = n + 1 THEN Len(buf)
               ELSE IF nth(k) - 1 >= from(k) /\ buf[nth(k) - 1] = "CR" THEN nth(k) - 2
               ELSE nth(k) - 1
  IN [k \in 1..(n + 1) |-> SubSeq(buf, from(k), to(k))]

RECURSIVE HdProcessLines(_, _)
\* for (const line of lines) this._processLine(line), on matched lines
HdProcessLines(w, lines) ==
  IF lines = <<>> THEN w
  ELSE HdProcessLines(HdProcessLine(w, Head(lines)), Tail(lines))

\* _handleData
HdHandleData(w, buffer, data) ==
  LET pieces == HdSplit(buffer \o data)
      lines == SubSeq(pieces, 1, Len(pieces) - 1)
  IN [ w |-> HdProcessLines(w, [i \in 1..Len(lines) |-> HdMatchLine(lines[i])]),
       buffer |-> HdKeepIncomplete(pieces),
       handled |-> Len(lines) ]

\* socket 'data' with the next n bytes of the stream
HdSocketData(n) ==
  /\ n >= 1
  /\ hdWirePos + n <= Len(hdWire)
  /\ LET r == HdHandleData([p |-> hdp, events |-> hdpEvents, sent |-> hdpSent], hdBuffer,
                           SubSeq(hdWire, hdWirePos + 1, hdWirePos + n))
     IN /\ hdp' = r.w.p
        /\ hdpEvents' = r.w.events
        /\ hdpSent' = r.w.sent
        /\ hdBuffer' = r.buffer
        /\ hdpPos' = hdpPos + r.handled
  /\ hdWirePos' = hdWirePos + n
  /\ UNCHANGED <<hdpScript, hdWire>>

\* the socket is connected; the device sends one of the scripts with
\* either line ending
InitWire ==
  /\ hdp = HdpConstructed(TRUE)
  /\ hdpScript \in HdParseScripts
  /\ hdpPos = 0
  /\ hdpEvents = <<>>
  /\ hdpSent = <<>>
  /\ hdWire \in { HdStreamBytes(hdpScript, eol) : eol \in HdLineEndings }
  /\ hdWirePos = 0
  /\ hdBuffer = <<>>

InitChunks ==
  AggIdle /\ TcIdle /\ InitHd /\ InitVmix /\ InitCaspar /\ InitWire /\ SchedIdle /\ OscIdle /\ EmberIdle /\ WsIdle /\ PktIdle /\ TslCallIdle /\ FnIdle /\ SlIdle /\ EvIdle

\* a chunk of up to MaxChunk bytes, or all that is left of the stream
NextChunks ==
  /\ \E n \in (1..MaxChunk) \cup {Len(hdWire) - hdWirePos} : HdSocketData(n)
  /\ UNCHANGED <<aggVars, tcVars, hdVars, vmixVars, casparVars, schedVars, oscVars, emberVars, wsVars, pktVars, tslCallVars, fnVars, slVars, evVars>>

SpecChunks == InitChunks /\ [][NextChunks]_vars

----------------------------------------------------------------------------
(* A HyperDeck that answers every poll, its client, and the aggregator's    *)
(* listeners on that client (server.js).  hdpSent holds the commands the    *)
(* device has not answered yet, hdpEvents the state events of the last      *)
(* answer.                                                                 *)

\* the HyperDeck of config.servers
RepDevice == CHOOSE d \in Servers : ServerType(d) = "hyperdeck"

\* what the device says about its transport: stopped at zero, or playing
RepTransport ==
  { [NoFields EXCEPT !.status = <<"stopped">>, !.timecode = TcZero],
    [NoFields EXCEPT !.status = <<"play">>, !.timecode = Tc01234512] }

\* what it says about its slot: no clip, or a clip
RepSlot ==
  { NoFields, [NoFields EXCEPT !.clip_name = <<"clip.mov">>] }

RepOthersIdle ==
  UNCHANGED <<tcVars, hdVars, vmixVars, casparVars, schedVars, oscVars, emberVars, wsVars, pktVars, tslCallVars, fnVars, slVars, evVars, wireVars>>

\* socket 'connect': _handleConnect, and the aggregator's 'connected' listener
RepSocketConnect ==
  /\ ~hdp.connected
  /\ hdp' = [hdp EXCEPT !.connected = TRUE]
  /\ hdpSent' = <<>>
  /\ hdpEvents' = <<>>
  /\ ClientEvent(RepDevice, EvConnected)
  /\ UNCHANGED <<hdpScript, hdpPos>>

\* socket 'close': _handleClose, and the aggregator's 'disconnected' listener
RepSocketClose ==
  /\ hdp.connected
  /\ hdp' = [hdp EXCEPT !.connected = FALSE]
  /\ hdpSent' = <<>>
  /\ hdpEvents' = <<>>
  /\ ClientEvent(RepDevice, EvDisconnected)
  /\ UNCHANGED <<hdpScript, hdpPos>>

\* the poll interval's callback (and the first request after a connect)
RepPoll ==
  /\ hdp.connected
  /\ hdpSent = <<>>
  /\ hdpSent' = HdSendCommand(hdp, HdSendCommand(hdp, <<>>, <<"transport info">>),
                              <<"slot info", hdp.activeSlot>>)
  /\ UNCHANGED <<hdp, hdpScript, hdpPos, hdpEvents>>
  /\ ServerAggIdle

\* the device answers both commands; the client handles the two responses
\* and the aggregator's 'state' listener runs for every event they emit
RepAnswer(transport, slot) ==
  /\ hdp.connected
  /\ hdpSent # <<>>
  /\ boot # "boot"
  /\ LET w0 == [p |-> hdp, events |-> <<>>, sent |-> <<>>]
         w1 == HdHandleResponse(w0, [code |-> STATUS_TRANSPORT_INFO, fields |-> transport])
         w2 == HdHandleResponse(w1, [code |-> STATUS_SLOT_INFO, fields |-> slot])
         evs == [i \in 1..Len(w2.events) |-> EvState(w2.events[i])]
         a == HandleEvents(World, RepDevice, evs)
     IN /\ hdp' = w2.p
        /\ hdpEvents' = w2.events
        /\ hdpSent' = <<>>
        /\ deviceStates' = a.store
        /\ emberProvider' = a.ember
        /\ tslSender' = a.tsl
        /\ tslSent' = a.sent
  /\ UNCHANGED <<hdpScript, hdpPos, boot, clock, shutdownCalls>>

RepPolls == RepPoll /\ RepOthersIdle

RepAnswers == (\E t \in RepTransport : \E s \in RepSlot : RepAnswer(t, s)) /\ RepOthersIdle

InitReporting == Init

NextReporting ==
  \/ ListenCallback /\ UNCHANGED hdpVars /\ RepOthersIdle
  \/ (\E ok \in BOOLEAN : EmberStartSettled(ok)) /\ UNCHANGED hdpVars /\ RepOthersIdle
  \/ Tick /\ UNCHANGED hdpVars /\ RepOthersIdle
  \/ RepSocketConnect /\ RepOthersIdle
  \/ RepSocketClose /\ RepOthersIdle
  \/ RepPolls
  \/ RepAnswers

\* the poll interval keeps firing and the device keeps answering
SpecReporting ==
  InitReporting /\ [][NextReporting]_vars /\ WF_vars(RepPolls) /\ WF_vars(RepAnswers)

\* C38: a HyperDeck whose client is connected and that keeps answering the
\* client's polls is eventually shown as stop, play or rec by the
\* aggregator instead of offline (unless the connection is lost again),
\* also after a disconnect and reconnect across which the reported state,
\* timecode and filename did not change.
C38_ReportingDeviceShown ==
  (hdp.connected /\ boot = "up")
    ~> (~hdp.connected \/ deviceStates[RepDevice].state \in {"stop", "play", "rec"})

\* the part of C38 that holds: an answer that changes the client's state
\* is shown by the aggregator
C38_ChangedReportShown ==
  [][ (RepAnswers /\ hdp'.currentState # hdp.currentState)
        => deviceStates'[RepDevice].state = hdp'.currentState.state ]_vars

\* the sockets that are alive: connecting or connected
C39_Alive == { s \in HdSocketIds : hdSockets[s].status \in {"connecting", "open"} }

\* C39: a HyperDeck client never has more than one socket alive at a time,
\* for any interleaving of connect(), disconnect(), socket events and the
\* reconnect timer, connect() while a reconnect timer is pending included.
C39_OneSocketAlive ==
  Cardinality(C39_Alive) <= 1

\* the consequence C39 draws: 'connected' is emitted only by a client that
\* is not connected, so that 'connected' and 'disconnected' alternate
C39_ConnectedAlternates ==
  [][ (\E i \in DOMAIN hdEmitted' : hdEmitted'[i] = "connected") => ~hd.connected ]_vars

\* the number of line endings among the first n bytes of the stream
C40_LinesIn(n) == Cardinality({ i \in 1..n : hdWire[i] = "LF" })

\* what the client is after the first k lines of the script, each handed
\* to _processLine as a whole
C40_AfterLines(k) ==
  HdProcessLines([p |-> HdpConstructed(hdp.connected), events |-> <<>>, sent |-> <<>>],
                 SubSeq(hdpScript, 1, k))

\* C40: however the byte stream is split into chunks (between CR and LF
\* and inside a line included) and whether its lines end in CRLF or LF,
\* after any number of bytes the client has handled exactly the lines whose
\* line ending it has received: its responses, its state, the state events
\* it has emitted and the commands it has sent are those of the complete
\* lines, so a response is handled once, when its blank line has arrived.
C40_ChunkingIrrelevant ==
  LET k == C40_LinesIn(hdWirePos)
      ref == C40_AfterLines(k)
  IN /\ hdpPos = k
     /\ hdp = ref.p
     /\ hdpEvents = ref.events
     /\ hdpSent = ref.sent

\* a chunk has ended between CR and LF, after a state event was emitted
\* and with another response still to come
C40_Witness ==
  /\ hdBuffer # <<>>
  /\ hdBuffer[Len(hdBuffer)] = "CR"
  /\ hdpEvents # <<>>
  /\ hdp.currentResponse # NoResponse

====
